---- MODULE Spec2Model ----
(***************************************************************************)
(* Coordination layer of the sharded market-analytics producer: node      *)
(* membership, HRW assignment with hysteresis, fenced writer leases, and  *)
(* the lease-gated fast/slow report publication of the strategy.          *)
(*                                                                         *)
(* Time is counted in ticks of 2000 ms.  Every call to the key/value      *)
(* store is synchronous, so the handlers of one node never overlap; the   *)
(* handlers of different nodes interleave between store operations.  The  *)
(* report cycles are split at their store operations (verify, then write; *)
(* read, then write); the background loops touch disjoint keys per symbol *)
(* and are taken as one step per iteration.  A store call that raises is  *)
(* an input of the step: the set of symbols whose lease calls fail, or a  *)
(* flag for the calls that are not per symbol.                            *)
(***************************************************************************)
EXTENDS Integers, FiniteSets, Sequences, TLC

Node == {"A", "B"}
NodeSeq == <<"A", "B">>
\* the node ids select_node is studied with
HrwNode == {"A", "B", "C"}
Symbol == {"BTCUSDT", "ETHUSDT"}
None == "none"
NoToken == 0

\* bound of the model: the lease store issues no token above it
MaxToken == 2
\* bound of the model: the digests select_node is studied with are 0..MaxDigest
MaxDigest == 2
\* bounds of the model: max_size of the three trade buffers and of the quantity history
Max10s == 1
Max30s == 2
Max30min == 3
MaxQuantityHistory == 2
\* OrderBookL2.max_levels
max_levels == 20
\* bound of the model: the TTLs a report key is studied with are 1..MaxKeyTTL ticks
MaxKeyTTL == 2
\* publish_report: max_retries
max_retries == 3
\* bound of the model: the clock shows 1..MaxClock
MaxClock == 2
\* bounds of the model: on_slow_cycle invocations under way together, skips counted
MaxInvocation == 2
MaxSkip == 2
\* MarketAnalyticsStrategy.default_writer_token
default_writer_token == 1

\* program constants, in ticks of 2000 ms / percent
LeaseTTL == 1
MinHold == 1
MemberTTL == 2
StickyPct == 2

VARIABLES
    configured_symbols, \* the symbols the node fleet is configured with
    \* ---- shared key/value store
    lease,            \* [Symbol -> [owner, ttl, token]]: report:writer:{s} (+ TTL), report:writer:token:{s}
    member_ttl,       \* [Node -> 0..MemberTTL]: remaining TTL of nt:node:{n}; 0 = no record
    report,           \* [Symbol -> [node, token]]: writer fields of report:{s}
    \* ---- SymbolAssignmentController of each node
    ctrl_owned,       \* owned_symbols
    symbol_tokens,    \* symbol_tokens (NoToken = no entry)
    acq_age,          \* ticks since symbol_acquisition_times[s], saturating at MinHold
    \* ---- MarketAnalyticsStrategy of each node
    up,               \* the process runs
    owned_symbols,
    writer_tokens,    \* (NoToken = no entry)
    subscribed,       \* symbols with market-data subscriptions
    lease_conflicts,  \* metrics.lease_conflicts, a counter nothing reads back: kept as the number of
                      \* inc() calls made by the node's latest handler run
    pc,               \* the report cycle's position: idle, or a report built and about to be written
    \* ---- history
    granted,          \* [Node -> [Symbol -> 0..LeaseTTL]]: time left of the lease as last granted to the
                      \* node (acquire returned a token, renew returned True); 0 after its release
    issued,           \* [Symbol -> token]: token returned by the latest successful acquire of s
    last_acquired,    \* [Node -> [Symbol -> token]]: token returned by the node's latest successful acquire
                      \* of a symbol it still counts as its own (NoToken once the strategy dropped it)
    expired,          \* [Node -> SUBSET Symbol]: symbols the node counts as its own whose lease ran out
                      \* and was not re-acquired
    \* ---- HRW assignment of one symbol, studied on its own
    digest,           \* [HrwNode -> 0..MaxDigest]: hrw_hash(node, symbol) of each node
    live_nodes,       \* the list of active node ids
    chosen,           \* the node select_node returned for live_nodes (None: not computed, or no node)
    removed,          \* history: the node that left the list last (None: none yet)
    prev_chosen,      \* history: the node chosen before that node left
    rebalance_result, \* per node: the lists rebalance() returned that the strategy has not handled yet
    bids,             \* SymbolState of one symbol: order_book.bids, price -> qty (0: no level)
    asks,             \* order_book.asks
    best_bid,         \* best_bid (NoLevel: None)
    best_ask,         \* best_ask
    last_trade,       \* last_trade (None: no trade yet)
    trade_buffer_10s,     \* the trade buffers, oldest first
    trade_buffer_30s,
    trade_buffer_30min,
    quantity_history, \* quantities of the order book updates, oldest first
    overflowed,       \* history: the buffers that have discarded an item
    kv,               \* the store's key report:{s} in full: the JSON text (<<>>: no key) and its TTL
    pub,              \* history: the latest publish_report call, its attempts and its result
    now,              \* the wall clock, in ticks
    base_report,      \* enrich_report: the report given
    slow_metrics,     \* enrich_report: the slow-cycle metrics given (0: None or empty)
    enriched,         \* enrich_report: the report returned (<<>>: not called)
    slow_cycle_running,     \* _slow_cycle_running
    slow_cycle_skip_count,  \* _slow_cycle_skip_count
    slow_pc,          \* per on_slow_cycle invocation: "idle", or "running" once past the guard
    \* ---- calculate_health_score, studied on its own
    data_age_ms,      \* the arguments: <<>> is None, <<v>> a value; milliseconds
    spread_bps,       \* thousandths of a basis point
    imbalance,        \* ten-thousandths
    has_anomalies,
    health,           \* the dict returned (NoHealth: not called)
    \* ---- the handlers of one MarketAnalyticsStrategy, studied on their own
    symbol_states,    \* [Symbol -> state]: symbol_states (NoState: no entry)
    tasks,            \* the background tasks that are not cancelled
    timers,           \* the timers set on the clock
    fast_log,         \* [Symbol -> the log event of the latest handler run for the symbol]
    report_publish_rate,  \* [Symbol -> inc() calls of the latest handler run]
    written,          \* the symbols whose report:{s} the latest handler run wrote
    stop,             \* history: on_stop has run, the symbols owned then, the store reachable then
    written_after_stop,   \* history: the symbols whose report:{s} was written after on_stop
    faults,           \* on_fast_cycle studied on its own: the symbols whose lease information
                      \* cannot be read and those whose report cannot be written
    \* ---- start-up: ProducerConfig.validate and main
    config,           \* the ProducerConfig loaded
    startup,          \* what main did with it (NotStarted: main has not run)
    \* ---- the value-area expansion of calculate_volume_profile
    hist,             \* [0..n-1 -> volume]: the histogram
    poc_idx,
    left_idx,
    right_idx,
    accumulated_volume,
    profile,          \* POC, VAH and VAL in half bins from the first edge (NoProfile: still in the loop)
    \* ---- one OrderBookL2
    ob_max_levels,    \* max_levels
    ob_bids,          \* bids: price -> qty, a function on the prices that have a level
    ob_asks,          \* asks
    ob_top_bids,      \* top_bids: the list of (price, qty)
    ob_top_asks,      \* top_asks
    ob_calls,         \* the update_bid and update_ask calls made so far
    \* ---- the LeaseManager calls, studied on their own
    lease_call,       \* history: the latest acquire, renew or release call and its answer
    \* ---- NodeMembership.discover
    node_record,      \* [Node -> [kind, age]]: the value of nt:node:{n} and the age in ticks of
                      \* its last_heartbeat (kind "none": no key)
    discovered,       \* history: the latest discover() call and the list it returned
    \* ---- the three background loops of one strategy
    loop_log,         \* [loop -> the error its except clause logged last ("-": none)]
    loop_ended,       \* the loops that an exception has ended
    \* ---- calculate_slow_metrics
    calc_raises,      \* the calculators that raise when called
    slow_result       \* the metrics returned (NoSlowResult: not called)

coordVars == <<configured_symbols, lease, member_ttl, report, ctrl_owned, symbol_tokens, acq_age,
               up, owned_symbols, writer_tokens, subscribed, lease_conflicts,
               pc, granted, issued, last_acquired, expired>>
hrwVars == <<digest, live_nodes, chosen, removed, prev_chosen>>
\* the state of the components studied on their own
stepVars == <<rebalance_result>>

bookVars == <<bids, asks, best_bid, best_ask>>

bufferVars == <<last_trade, trade_buffer_10s, trade_buffer_30s, trade_buffer_30min, quantity_history,
                overflowed>>

stateVars == <<bookVars, bufferVars>>

pubVars == <<kv, pub>>

enrichVars == <<now, base_report, slow_metrics, enriched>>

cycleVars == <<slow_cycle_running, slow_cycle_skip_count, slow_pc>>

healthVars == <<data_age_ms, spread_bps, imbalance, has_anomalies, health>>

\* the state of the calculators and handlers studied on their own
cycleOut == <<fast_log, report_publish_rate, written>>

strategyVars == <<symbol_states, tasks, timers, cycleOut, stop, written_after_stop, faults>>

configVars == <<config, startup>>

profileVars == <<hist, poc_idx, left_idx, right_idx, accumulated_volume, profile>>

orderBookVars == <<ob_max_levels, ob_bids, ob_asks, ob_top_bids, ob_top_asks, ob_calls>>

membershipVars == <<node_record, discovered>>

loopVars == <<loop_log, loop_ended>>

slowMetricsVars == <<calc_raises, slow_result>>

extVars == <<lease_call, membershipVars, loopVars, slowMetricsVars>>

calcVars == <<healthVars, strategyVars, configVars, profileVars, orderBookVars, extVars>>

auxVars == <<hrwVars, stepVars, stateVars, pubVars, enrichVars, cycleVars, calcVars>>

vars == <<coordVars, auxVars>>

storeVars == <<lease, member_ttl, report>>
cfgVars == <<configured_symbols>>
ctrlVars == <<ctrl_owned, symbol_tokens, acq_age>>
stratVars == <<owned_symbols, writer_tokens, subscribed>>
histVars == <<granted, issued, last_acquired, expired>>

NoLease == [owner |-> None, ttl |-> 0, token |-> NoToken]
NoReport == [token |-> NoToken, node |-> None]
Idle == [token |-> NoToken, node |-> None, op |-> "idle", cycle |-> "-", sym |-> None, verified |-> FALSE]

----------------------------------------------------------------------------
(* HRW hashing *)

\* blake2b/64 of "node:symbol", as a fixed table: A wins BTCUSDT clearly,
\* B wins ETHUSDT by less than the sticky bonus.
hrw_hash(node, symbol) ==
    CASE node = "A" /\ symbol = "BTCUSDT" -> 900
      [] node = "B" /\ symbol = "BTCUSDT" -> 500
      [] node = "A" /\ symbol = "ETHUSDT" -> 700
      [] OTHER -> 707

\* select_node without the single-node shortcut's answer
select_node_needs_peers(symbol, nodes, current_owner) ==
    IF Len(nodes) < 2 THEN None
    ELSE LET weight(node) ==
                 IF current_owner # None /\ node = current_owner
                 THEN (hrw_hash(node, symbol) * (100 + StickyPct)) \div 100
                 ELSE hrw_hash(node, symbol)
             best == CHOOSE i \in 1..Len(nodes) :
                        \A j \in 1..Len(nodes) :
                            \/ weight(nodes[j]) < weight(nodes[i])
                            \/ weight(nodes[j]) = weight(nodes[i]) /\ i <= j
         IN nodes[best]

\* modulo sharding: the node at the first digest's remainder
select_by_modulo(hash, nodes, current_owner) ==
    IF Len(nodes) = 0 THEN None
    ELSE nodes[(hash[nodes[1]] % Len(nodes)) + 1]

\* select_node on the digests of the nodes: None without nodes, the only node, or the
\* node of maximum weight (the first of the list on a tie), the owner's weight raised
\* by the sticky bonus
select_by_weight(hash, nodes, current_owner) ==
    IF Len(nodes) = 0 THEN None
    ELSE IF Len(nodes) = 1 THEN nodes[1]
    ELSE LET weight(node) ==
                 IF current_owner # None /\ node = current_owner
                 THEN (hash[node] * (100 + StickyPct)) \div 100
                 ELSE hash[node]
             best == CHOOSE i \in 1..Len(nodes) :
                        \A j \in 1..Len(nodes) :
                            \/ weight(nodes[j]) < weight(nodes[i])
                            \/ weight(nodes[j]) = weight(nodes[i]) /\ i <= j
         IN nodes[best]

select_node(symbol, nodes, current_owner) ==
    select_by_weight([n \in HrwNode |-> hrw_hash(n, symbol)], nodes, current_owner)

----------------------------------------------------------------------------
(* Lease scripts (server side) and the LeaseManager calls *)

acquire_script(l, node) ==
    IF l.owner = None \/ l.owner = node
    THEN [lease |-> [owner |-> node, ttl |-> LeaseTTL, token |-> l.token + 1],
          result |-> l.token + 1]
    ELSE [lease |-> l, result |-> NoToken]

renew_script(l, node) ==
    IF l.owner = node
    THEN [lease |-> [l EXCEPT !.ttl = LeaseTTL], result |-> 1]
    ELSE [lease |-> l, result |-> 0]

release_script(l, node) ==
    IF l.owner = node
    THEN [lease |-> NoLease, result |-> 1]
    ELSE [lease |-> l, result |-> 0]

\* acquire that answers a denial with the token on record
acquire_token_on_record(l, node, ok) ==
    IF ok
    THEN LET r == acquire_script(l, node)
         IN [lease |-> r.lease, token |-> IF r.result = NoToken THEN l.token ELSE r.result]
    ELSE [lease |-> l, token |-> NoToken]

\* LeaseManager.acquire: the token, or None (NoToken) when denied or on an error
acquire(l, node, ok) ==
    IF ok
    THEN LET r == acquire_script(l, node) IN [lease |-> r.lease, token |-> r.result]
    ELSE [lease |-> l, token |-> NoToken]

\* renew that takes every answer of the script for a renewal
renew_any_answer(l, node, ok) ==
    IF ok
    THEN LET r == renew_script(l, node) IN [lease |-> r.lease, renewed |-> TRUE]
    ELSE [lease |-> l, renewed |-> FALSE]

\* LeaseManager.renew: True iff the script answered 1; an error answers False
renew(l, node, ok) ==
    IF ok
    THEN LET r == renew_script(l, node) IN [lease |-> r.lease, renewed |-> (r.result = 1)]
    ELSE [lease |-> l, renewed |-> FALSE]

\* LeaseManager.release
release(l, node, ok) ==
    IF ok
    THEN LET r == release_script(l, node) IN [lease |-> r.lease, released |-> (r.result = 1)]
    ELSE [lease |-> l, released |-> FALSE]

\* LeaseManager.get_lease_info: {} (NoLease) when both keys are absent or unreadable
get_lease_info(l, ok) ==
    IF ok THEN [owner |-> l.owner, token |-> l.token] ELSE [owner |-> None, token |-> NoToken]

----------------------------------------------------------------------------
(* Membership *)

\* NodeMembership.discover / get_active_node_ids: the records still within TTL
discover(ok) ==
    IF ok THEN SelectSeq(NodeSeq, LAMBDA n : member_ttl[n] > 0) ELSE <<>>

----------------------------------------------------------------------------
\* the state after construction: no lease, no membership record, nothing owned
CoordStart(symbols, running) ==
    /\ configured_symbols = symbols
    /\ lease = [s \in Symbol |-> NoLease]
    /\ member_ttl = [n \in Node |-> 0]
    /\ report = [s \in Symbol |-> NoReport]
    /\ ctrl_owned = [n \in Node |-> {}]
    /\ symbol_tokens = [n \in Node |-> [s \in Symbol |-> NoToken]]
    /\ acq_age = [n \in Node |-> [s \in Symbol |-> 0]]
    /\ up = [n \in Node |-> n \in running]
    /\ owned_symbols = [n \in Node |-> {}]
    /\ writer_tokens = [n \in Node |-> [s \in Symbol |-> NoToken]]
    /\ subscribed = [n \in Node |-> {}]
    /\ lease_conflicts = [n \in Node |-> 0]
    /\ pc = [n \in Node |-> Idle]
    /\ granted = [n \in Node |-> [s \in Symbol |-> 0]]
    /\ issued = [s \in Symbol |-> NoToken]
    /\ last_acquired = [n \in Node |-> [s \in Symbol |-> NoToken]]
    /\ expired = [n \in Node |-> {}]

\* the HRW study at rest
HrwIdle ==
    /\ digest = [n \in HrwNode |-> 0]
    /\ live_nodes = <<>>
    /\ chosen = None
    /\ removed = None
    /\ prev_chosen = None

\* no rebalance() result waits for the strategy's handlers
NoResult == [acquire |-> {}, release |-> {}, pending |-> FALSE]

StepIdle == rebalance_result = [n \in Node |-> NoResult]

\* prices and quantities of order book levels; quantity 0 removes a level
Price == 1..2

Qty == 0..1

\* a trade tick, told apart by its aggressor side
Trade == {"BUY", "SELL"}

\* no best bid or ask
NoLevel == [price |-> 0, qty |-> 0]

\* SymbolState.__init__: empty book, empty buffers
StateIdle ==
    /\ bids = [p \in Price |-> 0]
    /\ asks = [p \in Price |-> 0]
    /\ best_bid = NoLevel
    /\ best_ask = NoLevel
    /\ last_trade = None
    /\ trade_buffer_10s = <<>>
    /\ trade_buffer_30s = <<>>
    /\ trade_buffer_30min = <<>>
    /\ quantity_history = <<>>
    /\ overflowed = {}

\* a key without expiry, as its TTL
NoExpiry == 0

\* no key
NoKey == [ttl |-> NoExpiry, val |-> <<>>]

\* publish_report not called yet
NoCall == [report |-> <<>>, symbol |-> None, result |-> FALSE, outcomes |-> <<>>, attempts |-> 0]

\* no report key in the store
PubIdle ==
    /\ kv = [s \in Symbol |-> NoKey]
    /\ pub = NoCall

\* a report with nothing in it
NoFields ==
    [writerToken |-> NoToken, updatedAt |-> 0, fast |-> None,
     volume_profile |-> 0, walls |-> 0, vacuums |-> 0, anomalies |-> 0,
     slow_cycle_updated_at |-> 0]

\* calculate_slow_metrics finding nothing
NoMetrics == [volume_profile |-> 0, anomalies |-> 0, liquidity_walls |-> 0, liquidity_vacuums |-> 0]

\* enrich_report not called
EnrichIdle ==
    /\ now = 1
    /\ base_report = NoFields
    /\ slow_metrics = NoMetrics
    /\ enriched = <<>>

\* the on_slow_cycle invocations that can be under way together
Invocation == 1..MaxInvocation

\* MarketAnalyticsStrategy.__init__: no slow cycle running, none skipped
CycleIdle ==
    /\ slow_cycle_running = FALSE
    /\ slow_cycle_skip_count = 0
    /\ slow_pc = [i \in Invocation |-> "idle"]

NoHealth == [status |-> None, score |-> 0, issues |-> <<>>]

HealthIdle ==
    /\ data_age_ms = <<>>
    /\ spread_bps = <<>>
    /\ imbalance = <<>>
    /\ has_anomalies = FALSE
    /\ health = NoHealth

\* a SymbolState in brief: best bid and ask (0: None), the number of levels of top_bids and
\* top_asks, the last trade
NoState == [best_bid |-> 0, best_ask |-> 0, last_trade |-> None, present |-> FALSE, top_bids |-> 0,
            top_asks |-> 0]

NoCycleOutput ==
    /\ fast_log = [s \in Symbol |-> "-"]
    /\ report_publish_rate = [s \in Symbol |-> 0]
    /\ written = {}

NotStopped == [done |-> FALSE, owned |-> {}, reachable |-> FALSE]

NoFaults == [info |-> {}, publish |-> {}]

StrategyIdle ==
    /\ symbol_states = [s \in Symbol |-> NoState]
    /\ tasks = {}
    /\ timers = {}
    /\ NoCycleOutput
    /\ stop = NotStopped
    /\ written_after_stop = {}
    /\ faults = NoFaults

\* the class defaults of ProducerConfig; nt_hrw_sticky_pct in thousandths
DefaultConfig ==
    [symbols |-> <<>>, log_level |-> "info", nt_enable_kv_reports |-> FALSE,
     nt_report_period_ms |-> 250, nt_slow_period_ms |-> 2000, nt_lease_ttl_ms |-> 2000,
     nt_node_id |-> "", nt_hrw_sticky_pct |-> 20]

NotStarted == [entry |-> "-", started |-> FALSE, exit_code |-> 0, error |-> "-"]

ConfigIdle ==
    /\ config = DefaultConfig
    /\ startup = NotStarted

NoProfile == [done |-> FALSE, returned |-> FALSE, POC |-> 0, VAH |-> 0, VAL |-> 0]

ProfileIdle ==
    /\ hist = <<>>
    /\ poc_idx = 0
    /\ left_idx = 0
    /\ right_idx = 0
    /\ accumulated_volume = 0
    /\ profile = NoProfile

\* OrderBookL2(): no level on either side
OrderBookIdle ==
    /\ ob_max_levels = max_levels
    /\ ob_bids = <<>>
    /\ ob_asks = <<>>
    /\ ob_top_bids = <<>>
    /\ ob_top_asks = <<>>
    /\ ob_calls = <<>>

Loop == {"heartbeat", "rebalance", "lease_renewal"}

NoLeaseCall == [token |-> NoToken, node |-> None, op |-> "-", sym |-> None, answer |-> FALSE]
NoRecord == [kind |-> "none", age |-> 0]
NotDiscovered == [nodes |-> <<>>, called |-> FALSE, scan_ok |-> FALSE]
NoSlowResult == [called |-> FALSE, computed |-> {}]

ExtIdle ==
    /\ lease_call = NoLeaseCall
    /\ node_record = [n \in Node |-> NoRecord]
    /\ discovered = NotDiscovered
    /\ loop_log = [l \in Loop |-> "-"]
    /\ loop_ended = {}
    /\ calc_raises = {}
    /\ slow_result = NoSlowResult

CalcIdle == HealthIdle /\ StrategyIdle /\ ConfigIdle /\ ProfileIdle /\ OrderBookIdle /\ ExtIdle

AuxIdle == HrwIdle /\ StepIdle /\ StateIdle /\ PubIdle /\ EnrichIdle /\ CycleIdle /\ CalcIdle

InitWith(symbols, running) == CoordStart(symbols, running) /\ AuxIdle

\* two nodes sharing one symbol
Init == InitWith({"BTCUSDT"}, Node)

\* two nodes sharing one symbol (either), or a single node with both symbols
CoordInit ==
    \/ \E s \in Symbol : InitWith({s}, Node)
    \/ InitWith(Symbol, {"A"})

\* two nodes sharing the symbol that HRW gives to B
LiveInit == InitWith({"ETHUSDT"}, Node)

\* a handler of node n may start
Ready(n) == up[n] /\ pc[n].op = "idle"

----------------------------------------------------------------------------
(* Time: one tick passes; leases and membership records run out *)

Tick ==
    /\ lease' = [s \in Symbol |->
                    IF lease[s].ttl > 1 THEN [lease[s] EXCEPT !.ttl = @ - 1]
                    ELSE [lease[s] EXCEPT !.owner = None, !.ttl = 0]]
    /\ member_ttl' = [n \in Node |-> IF member_ttl[n] > 0 THEN member_ttl[n] - 1 ELSE 0]
    /\ acq_age' = [n \in Node |-> [s \in Symbol |->
                    IF s \notin ctrl_owned[n] THEN 0
                    ELSE IF acq_age[n][s] < MinHold THEN acq_age[n][s] + 1 ELSE MinHold]]
    /\ granted' = [n \in Node |-> [s \in Symbol |->
                    IF granted[n][s] > 0 THEN granted[n][s] - 1 ELSE 0]]
    /\ expired' = [n \in Node |-> expired[n] \cup {s \in owned_symbols[n] : granted[n][s] = 1}]
    /\ UNCHANGED <<auxVars, cfgVars, report, ctrl_owned, symbol_tokens, up, stratVars, lease_conflicts,
                   pc, issued, last_acquired>>

----------------------------------------------------------------------------
(* Heartbeat loop *)

\* NodeMembership.heartbeat: SET nt:node:{n} with the TTL; an error leaves the record alone
heartbeat(m, n, ok) == IF ok THEN [m EXCEPT ![n] = MemberTTL] ELSE m

HeartbeatLoop(n, ok) ==
    /\ Ready(n)
    /\ member_ttl' = heartbeat(member_ttl, n, ok)
    /\ lease_conflicts' = [lease_conflicts EXCEPT ![n] = 0]
    /\ UNCHANGED <<auxVars, cfgVars, lease, report, ctrlVars, up, stratVars, pc, histVars>>

----------------------------------------------------------------------------
(* Rebalance loop: SymbolAssignmentController.rebalance, then the strategy's
   drop and acquired handlers for the returned lists *)

\* the assignment by HRW with hysteresis alone, the hold time not looked at
desired_assignment_unheld(n, s, active) ==
    select_node(s, active, IF s \in ctrl_owned[n] THEN n ELSE None)

\* the node the controller wants as owner of symbol s (min hold, then HRW with hysteresis)
desired_assignment(n, s, active) ==
    LET current_owner == IF s \in ctrl_owned[n] THEN n ELSE None
    IN IF current_owner # None /\ acq_age[n][s] < MinHold
       THEN current_owner
       ELSE select_node(s, active, current_owner)

desired_owned(n, active) == {s \in configured_symbols : desired_assignment(n, s, active) = n}

to_acquire(n, active) ==
    IF Len(active) = 0 THEN {} ELSE desired_owned(n, active) \ ctrl_owned[n]

\* to_release without the early return on an empty node list
to_release_unchecked(n, active) == ctrl_owned[n] \ desired_owned(n, active)

to_release(n, active) ==
    IF Len(active) = 0 THEN {} ELSE ctrl_owned[n] \ desired_owned(n, active)

\* _release_symbol: the lease after the controller's release call
release_symbol(l, n, ok) == release(l, n, ok).lease

\* _acquire_symbol: the lease after the call and the token recorded (NoToken: not acquired)
acquire_symbol(l, n, ok) == acquire(l, n, ok)

\* _on_symbol_dropped_async: the lease after the strategy's release call
on_symbol_dropped(l, n, ok) == release(l, n, ok).lease

\* get_token_for_symbol answering the default writer token for a symbol without entry
get_token_or_default(tokens, s) ==
    IF tokens[s] = NoToken THEN default_writer_token ELSE tokens[s]

\* get_token_for_symbol: symbol_tokens.get(s), read by _on_symbol_acquired_async, which
\* returns without owning the symbol when there is none
get_token_for_symbol(tokens, s) == tokens[s]

\* the lease of s after the iteration: released by the controller and again by the
\* strategy's drop handler, or acquired by the controller
rebalance_lease(n, s, rel, acq, ok) ==
    IF s \in rel THEN on_symbol_dropped(release_symbol(lease[s], n, ok), n, ok)
    ELSE IF s \in acq THEN acquire_symbol(lease[s], n, ok).lease
    ELSE lease[s]

RebalanceLoop(n, ok, failed) ==
    /\ Ready(n)
    /\ LET active == discover(ok)
           rel == to_release(n, active)
           acq == to_acquire(n, active)
           tok == [s \in Symbol |-> acquire_symbol(lease[s], n, s \notin failed).token]
           got == {s \in acq : tok[s] # NoToken}
           tokens == [s \in Symbol |->
                         IF s \in rel THEN NoToken
                         ELSE IF s \in got THEN tok[s] ELSE symbol_tokens[n][s]]
           has == {s \in acq : get_token_for_symbol(tokens, s) # NoToken}
           freed == {s \in rel : release(lease[s], n, s \notin failed).released}
       IN /\ \A s \in acq : lease[s].token < MaxToken
          /\ lease' = [s \in Symbol |-> rebalance_lease(n, s, rel, acq, s \notin failed)]
          /\ ctrl_owned' = [ctrl_owned EXCEPT ![n] = (@ \ rel) \cup got]
          /\ symbol_tokens' = [symbol_tokens EXCEPT ![n] = tokens]
          /\ acq_age' = [acq_age EXCEPT ![n] = [s \in Symbol |->
                                  IF s \in rel \cup got THEN 0 ELSE @[s]]]
          /\ owned_symbols' = [owned_symbols EXCEPT ![n] = (@ \ rel) \cup has]
          /\ writer_tokens' = [writer_tokens EXCEPT ![n] = [s \in Symbol |->
                                  IF s \in rel THEN NoToken
                                  ELSE IF s \in has THEN get_token_for_symbol(tokens, s)
                                  ELSE @[s]]]
          /\ subscribed' = [subscribed EXCEPT ![n] = (@ \ rel) \cup has]
          /\ granted' = [granted EXCEPT ![n] = [s \in Symbol |->
                                  IF s \in got THEN LeaseTTL
                                  ELSE IF s \in freed THEN 0 ELSE @[s]]]
          /\ issued' = [s \in Symbol |-> IF s \in got THEN tok[s] ELSE issued[s]]
          /\ last_acquired' = [last_acquired EXCEPT ![n] = [s \in Symbol |->
                                  IF s \in got THEN tok[s]
                                  ELSE IF s \in rel THEN NoToken ELSE @[s]]]
          /\ expired' = [expired EXCEPT ![n] = @ \ (got \cup rel)]
    /\ lease_conflicts' = [lease_conflicts EXCEPT ![n] = 0]
    /\ UNCHANGED <<auxVars, cfgVars, member_ttl, report, up, pc>>

----------------------------------------------------------------------------
(* Lease renewal loop *)

\* symbols_to_drop with the test inverted: the renewed symbols are marked
symbols_to_drop_renewed(n, failRenew) ==
    {s \in owned_symbols[n] : renew(lease[s], n, s \notin failRenew).renewed}

\* the owned symbols whose renew call answered False (denied, or the call raised)
symbols_to_drop(n, failRenew) ==
    {s \in owned_symbols[n] : ~renew(lease[s], n, s \notin failRenew).renewed}

\* the lease of s after the iteration: renewed, or released by the drop handler
renewal_lease(n, s, drop, okRenew, okRelease) ==
    IF s \in drop THEN on_symbol_dropped(lease[s], n, okRelease)
    ELSE IF s \in owned_symbols[n] THEN renew(lease[s], n, okRenew).lease
    ELSE lease[s]

LeaseRenewalLoop(n, failRenew, failRelease) ==
    /\ Ready(n)
    /\ LET drop == symbols_to_drop(n, failRenew)
           kept == owned_symbols[n] \ drop
           freed == {s \in drop : release(lease[s], n, s \notin failRelease).released}
       IN /\ lease' = [s \in Symbol |->
                          renewal_lease(n, s, drop, s \notin failRenew, s \notin failRelease)]
          /\ lease_conflicts' = [lease_conflicts EXCEPT ![n] = Cardinality(drop)]
          /\ owned_symbols' = [owned_symbols EXCEPT ![n] = kept]
          /\ writer_tokens' = [writer_tokens EXCEPT ![n] = [s \in Symbol |->
                                  IF s \in drop THEN NoToken ELSE @[s]]]
          /\ subscribed' = [subscribed EXCEPT ![n] = @ \ drop]
          /\ granted' = [granted EXCEPT ![n] = [s \in Symbol |->
                                  IF s \in kept THEN LeaseTTL
                                  ELSE IF s \in freed THEN 0 ELSE @[s]]]
          /\ last_acquired' = [last_acquired EXCEPT ![n] = [s \in Symbol |->
                                  IF s \in drop THEN NoToken ELSE @[s]]]
          /\ expired' = [expired EXCEPT ![n] = @ \ drop]
    /\ UNCHANGED <<auxVars, cfgVars, member_ttl, report, ctrlVars, up, pc, issued>>

----------------------------------------------------------------------------
(* Fast and slow report cycles, one owned symbol at a time *)

\* on_fast_cycle up to the report: the fencing check, then generate_fast_report
\* (has_book: the symbol's state has a best bid and a best ask)
FastCheck(n, s, ok, has_book) ==
    /\ Ready(n)
    /\ s \in owned_symbols[n]
    /\ LET current_token == writer_tokens[n][s]
           lease_info == get_lease_info(lease[s], ok)
           no_info == lease_info.owner = None /\ lease_info.token = NoToken
           stale == ~no_info /\ lease_info.token # current_token
       IN IF current_token = NoToken
          THEN /\ lease_conflicts' = [lease_conflicts EXCEPT ![n] = 0]
               /\ UNCHANGED pc
          ELSE IF stale
          THEN /\ lease_conflicts' = [lease_conflicts EXCEPT ![n] = 1]
               /\ UNCHANGED pc
          ELSE /\ pc' = IF has_book
                        THEN [pc EXCEPT ![n] = [token |-> current_token, node |-> n, op |-> "publish",
                                                cycle |-> "fast", sym |-> s,
                                                verified |-> ~no_info]]
                        ELSE pc
               /\ lease_conflicts' = [lease_conflicts EXCEPT ![n] = 0]
    /\ UNCHANGED <<auxVars, cfgVars, storeVars, ctrlVars, up, stratVars, histVars>>

\* on_slow_cycle up to the enriched report: read report:{s}, enrich_report keeps its writer
SlowRead(n, s, ok) ==
    /\ Ready(n)
    /\ s \in owned_symbols[n]
    /\ pc' = IF ok /\ report[s] # NoReport
             THEN [pc EXCEPT ![n] = [token |-> report[s].token, node |-> report[s].node, op |-> "publish",
                                     cycle |-> "slow", sym |-> s,
                                     verified |-> FALSE]]
             ELSE pc
    /\ lease_conflicts' = [lease_conflicts EXCEPT ![n] = 0]
    /\ UNCHANGED <<auxVars, cfgVars, storeVars, ctrlVars, up, stratVars, histVars>>

\* publish_report: SET report:{s}; False after the retries when the store cannot be reached
publish_report(rep, s, new, ok) ==
    IF ok THEN [rep EXCEPT ![s] = new] ELSE rep

Publish(n, ok) ==
    /\ up[n] /\ pc[n].op = "publish"
    /\ report' = publish_report(report, pc[n].sym, [token |-> pc[n].token, node |-> pc[n].node], ok)
    /\ pc' = [pc EXCEPT ![n] = Idle]
    /\ UNCHANGED <<auxVars, cfgVars, lease, member_ttl, ctrlVars, up, stratVars, lease_conflicts, histVars>>

----------------------------------------------------------------------------
(* The process dies: no handler runs any more, on_stop included *)

Crash(n) ==
    /\ up[n]
    /\ up' = [up EXCEPT ![n] = FALSE]
    /\ pc' = [pc EXCEPT ![n] = Idle]
    /\ UNCHANGED <<auxVars, cfgVars, storeVars, ctrlVars, stratVars, lease_conflicts, histVars>>

----------------------------------------------------------------------------
Next ==
    \/ Tick
    \/ \E n \in Node, ok \in BOOLEAN : HeartbeatLoop(n, ok)
    \/ \E n \in Node, ok \in BOOLEAN, failed \in SUBSET configured_symbols :
           RebalanceLoop(n, ok, failed)
    \/ \E n \in Node, failRenew \in SUBSET configured_symbols,
          failRelease \in SUBSET configured_symbols :
           LeaseRenewalLoop(n, failRenew, failRelease)
    \/ \E n \in Node, s \in Symbol, ok \in BOOLEAN, has_book \in BOOLEAN :
           FastCheck(n, s, ok, has_book)
    \/ \E n \in Node, s \in Symbol, ok \in BOOLEAN : SlowRead(n, s, ok)
    \/ \E n \in Node, ok \in BOOLEAN : Publish(n, ok)

Spec == Init /\ [][Next]_vars

\* the coordination loops alone
CoordNext ==
    \/ Tick
    \/ \E n \in Node, ok \in BOOLEAN : HeartbeatLoop(n, ok)
    \/ \E n \in Node, ok \in BOOLEAN, failed \in SUBSET configured_symbols :
           RebalanceLoop(n, ok, failed)
    \/ \E n \in Node, failRenew \in SUBSET configured_symbols,
          failRelease \in SUBSET configured_symbols :
           LeaseRenewalLoop(n, failRenew, failRelease)

CoordSpec == CoordInit /\ [][CoordNext]_vars

\* failover: anything may happen while A runs; once A has died the store is reachable
\* and B's heartbeat comes before its membership record runs out
TimelyTick ==
    /\ \A n \in Node : up[n] => member_ttl[n] # 1
    /\ Tick

SurvivorTick == ~up["A"] /\ TimelyTick
SurvivorHeartbeat == ~up["A"] /\ HeartbeatLoop("B", TRUE)
SurvivorRebalance == ~up["A"] /\ RebalanceLoop("B", TRUE, {})
SurvivorRenewal == ~up["A"] /\ LeaseRenewalLoop("B", {}, {})

LiveNext ==
    \/ up["A"] /\ CoordNext
    \/ Crash("A")
    \/ SurvivorTick
    \/ SurvivorHeartbeat
    \/ SurvivorRebalance
    \/ SurvivorRenewal

\* the loops of B keep running (asyncio tasks with bounded sleeps), and time passes
LiveSpec ==
    /\ LiveInit
    /\ [][LiveNext]_vars
    /\ WF_vars(SurvivorTick)
    /\ WF_vars(SurvivorHeartbeat)
    /\ WF_vars(SurvivorRebalance)
    /\ WF_vars(SurvivorRenewal)

----------------------------------------------------------------------------
(* Writer leases *)

\* node n counts s as its own and the lease it was granted has not run out
holds_lease(n, s) ==
    /\ s \in ctrl_owned[n] \/ s \in owned_symbols[n]
    /\ granted[n][s] > 0

\* C1: for every symbol, at most one node counts it as owned while holding an
\* unexpired lease on it, and that node is the owner the lease store records; two
\* nodes never hold the lease of one symbol at the same instant.
C1_SingleLeaseHolder ==
    \A s \in Symbol : \A n \in Node :
        holds_lease(n, s) =>
            /\ lease[s].owner = n
            /\ \A m \in Node : holds_lease(m, s) => m = n

\* C1 case: a node holds the lease of a symbol that its peer once held and still
\* lists in its controller
C1_Witness ==
    \E s \in Symbol : \E n \in Node : \E m \in Node \ {n} :
        /\ holds_lease(n, s)
        /\ s \in ctrl_owned[m]
        /\ lease[s].token > 1

----------------------------------------------------------------------------
(* Fenced report publication *)

\* node n completes a write to report:{s} in this step
writes_report(n, s) ==
    /\ pc[n].op = "publish"
    /\ pc[n].sym = s
    /\ pc'[n].op = "idle"
    /\ report'[s] # report[s]

\* C3: once the holder of the lease of s has published its report under its
\* current token, no write replaces that report by one carrying a smaller token:
\* the writer token stored under report:{s} never decreases, under every
\* interleaving of the two nodes' store operations.
C3_NoStaleOverwrite ==
    [][\A s \in Symbol :
          ( /\ lease[s].owner # None
            /\ report[s].node = lease[s].owner
            /\ report[s].token = lease[s].token )
          => report'[s].token >= report[s].token]_vars

\* C4: a node whose lease of s expired unrenewed writes nothing to report:{s}
\* from the expiry until it has acquired the lease of s again.
C4_NoWriteAfterExpiry ==
    [][\A n \in Node : \A s \in Symbol :
          writes_report(n, s) => s \notin expired[n]]_vars

\* C5: a node writes report:{s}, in the fast and in the slow cycle alike, only
\* after it has verified in that cycle that the lease store's token of s equals
\* its writer_tokens[s].
C5_VerifiedBeforeWrite ==
    [][\A n \in Node : \A s \in Symbol :
          writes_report(n, s) => pc[n].verified]_vars

\* C6: every report a node writes to report:{s} carries the token returned by
\* that node's most recent successful acquire of s.
C6_ReportCarriesAcquiredToken ==
    [][\A n \in Node : \A s \in Symbol :
          writes_report(n, s) => report'[s].token = last_acquired[n][s]]_vars

\* C7: when A, holding s with token k, dies while B stays live with the store
\* reachable, B eventually owns s with a token of at least k + 1.
C7_FailoverLiveness ==
    \A s \in Symbol : \A k \in 1..(MaxToken - 1) :
        ( /\ ~up["A"]
          /\ s \in owned_symbols["A"] /\ writer_tokens["A"][s] = k
          /\ lease[s].owner = "A" /\ lease[s].token = k )
            ~> (s \in owned_symbols["B"] /\ writer_tokens["B"][s] >= k + 1)

----------------------------------------------------------------------------
(* Renewal, rebalance and failover *)

\* C8: after a node dropped s because its renewal was denied, the node's next
\* rebalance tick in which HRW still assigns s to it acquires the lease: with
\* the store reachable and the lease free, s is in owned_symbols with the new
\* token when the tick ends.
C8_ReacquireAfterDrop ==
    [][\A n \in Node : \A s \in configured_symbols :
          ( /\ RebalanceLoop(n, TRUE, {})
            /\ s \in ctrl_owned[n] \ owned_symbols[n]
            /\ desired_assignment(n, s, discover(TRUE)) = n
            /\ lease[s].owner = None )
          => /\ s \in owned_symbols'[n]
             /\ lease'[s].owner = n
             /\ writer_tokens'[n][s] = lease'[s].token]_vars

----------------------------------------------------------------------------
(* HRW assignment of one symbol while nodes leave *)

\* the lists of distinct node ids
NodeLists ==
    {q \in UNION {[1..k -> HrwNode] : k \in 0..Cardinality(HrwNode)} :
        \A i, j \in DOMAIN q : q[i] = q[j] => i = j}

HrwInit ==
    /\ CoordStart({}, {})
    /\ StepIdle
    /\ StateIdle
    /\ PubIdle
    /\ EnrichIdle
    /\ CycleIdle
    /\ CalcIdle
    /\ digest \in [HrwNode -> 0..MaxDigest]
    /\ live_nodes \in NodeLists
    /\ chosen = None
    /\ removed = None
    /\ prev_chosen = None

\* calculate_symbol_distribution for the symbol: select_node without a current owner
Distribute ==
    /\ chosen' = select_by_weight(digest, live_nodes, None)
    /\ UNCHANGED <<coordVars, stepVars, stateVars, pubVars, enrichVars, cycleVars, calcVars, digest,
                   live_nodes, removed, prev_chosen>>

\* node c is no longer listed as active; the symbol is assigned again
NodeLeaves(c) ==
    /\ chosen # None
    /\ \E i \in DOMAIN live_nodes : live_nodes[i] = c
    /\ LET rest == SelectSeq(live_nodes, LAMBDA n : n # c)
       IN /\ live_nodes' = rest
          /\ chosen' = select_by_weight(digest, rest, None)
    /\ removed' = c
    /\ prev_chosen' = chosen
    /\ UNCHANGED <<coordVars, stepVars, stateVars, pubVars, enrichVars, cycleVars, calcVars, digest>>

HrwNext ==
    \/ Distribute
    \/ \E c \in HrwNode : NodeLeaves(c)

HrwSpec == HrwInit /\ [][HrwNext]_vars

\* C11: HRW stability: when a node other than the chosen one leaves the list of
\* live nodes, select_node (no current owner given) still returns the node it
\* returned before, so a departure moves only the departed node's symbols.
C11_HrwStability ==
    (removed # None /\ prev_chosen # removed) => chosen = prev_chosen

\* C11 case: a node left a list of three in which it tied with the chosen node
C11_Witness ==
    /\ removed # None
    /\ Len(live_nodes) = 2
    /\ prev_chosen # removed
    /\ digest[removed] = digest[prev_chosen]
    /\ chosen = prev_chosen

----------------------------------------------------------------------------
(* Rebalance: minimum hold *)

\* C12: minimum hold: a rebalance tick of a node never releases a symbol the node
\* acquired less than min_hold_ms ago (the controller keeps it and the lease is
\* left as it is), whatever the live nodes and the HRW weights are.
C12_MinimumHold ==
    [][\A n \in Node, s \in Symbol :
          (/\ s \in ctrl_owned[n]
           /\ acq_age[n][s] < MinHold
           /\ \E ok \in BOOLEAN, failed \in SUBSET Symbol : RebalanceLoop(n, ok, failed))
          => (s \in ctrl_owned'[n] /\ lease'[s] = lease[s])]_vars

\* C12 case: a node holds a symbol it has just acquired while HRW over the live
\* nodes assigns the symbol to the other node
C12_Witness ==
    \E n \in Node, s \in Symbol :
        /\ Ready(n)
        /\ s \in ctrl_owned[n]
        /\ acq_age[n][s] < MinHold
        /\ Len(discover(TRUE)) = 2
        /\ select_node(s, discover(TRUE), n) # n

----------------------------------------------------------------------------
(* Rebalance loop in its two parts: rebalance() of the controller, then the
   strategy's handlers for the lists it returned *)

\* SymbolAssignmentController.rebalance: no callback is registered, so _release_symbol
\* goes straight to the lease release; the lists are returned to the loop
Rebalance(n, ok, failed) ==
    /\ Ready(n)
    /\ ~rebalance_result[n].pending
    /\ LET active == discover(ok)
           rel == to_release(n, active)
           acq == to_acquire(n, active)
           tok == [s \in Symbol |-> acquire_symbol(lease[s], n, s \notin failed).token]
           got == {s \in acq : tok[s] # NoToken}
           freed == {s \in rel : release(lease[s], n, s \notin failed).released}
       IN /\ \A s \in acq : lease[s].token < MaxToken
          /\ lease' = [s \in Symbol |->
                          IF s \in rel THEN release_symbol(lease[s], n, s \notin failed)
                          ELSE IF s \in acq THEN acquire_symbol(lease[s], n, s \notin failed).lease
                          ELSE lease[s]]
          /\ ctrl_owned' = [ctrl_owned EXCEPT ![n] = (@ \ rel) \cup got]
          /\ symbol_tokens' = [symbol_tokens EXCEPT ![n] = [s \in Symbol |->
                                  IF s \in rel THEN NoToken
                                  ELSE IF s \in got THEN tok[s] ELSE @[s]]]
          /\ acq_age' = [acq_age EXCEPT ![n] = [s \in Symbol |->
                                  IF s \in rel \cup got THEN 0 ELSE @[s]]]
          /\ granted' = [granted EXCEPT ![n] = [s \in Symbol |->
                                  IF s \in got THEN LeaseTTL
                                  ELSE IF s \in freed THEN 0 ELSE @[s]]]
          /\ issued' = [s \in Symbol |-> IF s \in got THEN tok[s] ELSE issued[s]]
          /\ last_acquired' = [last_acquired EXCEPT ![n] = [s \in Symbol |->
                                  IF s \in got THEN tok[s]
                                  ELSE IF s \in rel THEN NoToken ELSE @[s]]]
          /\ expired' = [expired EXCEPT ![n] = @ \ (got \cup rel)]
          /\ rebalance_result' = [rebalance_result EXCEPT ![n] =
                                  [acquire |-> acq, release |-> rel, pending |-> TRUE]]
    /\ lease_conflicts' = [lease_conflicts EXCEPT ![n] = 0]
    /\ UNCHANGED <<hrwVars, stateVars, pubVars, enrichVars, cycleVars, calcVars, cfgVars, member_ttl, report,
                   up, stratVars, pc>>

\* _rebalance_loop_async after rebalance(): _on_symbol_dropped_async for each released
\* symbol, then _on_symbol_acquired_async for each symbol to acquire
RebalanceHandlers(n, failed) ==
    /\ up[n]
    /\ rebalance_result[n].pending
    /\ LET rel == rebalance_result[n].release
           has == {s \in rebalance_result[n].acquire :
                      get_token_for_symbol(symbol_tokens[n], s) # NoToken}
       IN /\ lease' = [s \in Symbol |->
                          IF s \in rel THEN on_symbol_dropped(lease[s], n, s \notin failed)
                          ELSE lease[s]]
          /\ owned_symbols' = [owned_symbols EXCEPT ![n] = (@ \ rel) \cup has]
          /\ writer_tokens' = [writer_tokens EXCEPT ![n] = [s \in Symbol |->
                                  IF s \in rel THEN NoToken
                                  ELSE IF s \in has THEN get_token_for_symbol(symbol_tokens[n], s)
                                  ELSE @[s]]]
          /\ subscribed' = [subscribed EXCEPT ![n] = (@ \ rel) \cup has]
    /\ rebalance_result' = [rebalance_result EXCEPT ![n] = NoResult]
    /\ UNCHANGED <<hrwVars, stateVars, pubVars, enrichVars, cycleVars, calcVars, cfgVars, member_ttl, report,
                   ctrlVars, up, lease_conflicts, pc, histVars>>

\* the loops of a node run on one event loop: none starts between rebalance() and the
\* handlers of its result; the store and the other node go on
StepNext ==
    \/ Tick
    \/ \E n \in Node, ok \in BOOLEAN :
           ~rebalance_result[n].pending /\ HeartbeatLoop(n, ok)
    \/ \E n \in Node, ok \in BOOLEAN, failed \in SUBSET configured_symbols :
           Rebalance(n, ok, failed)
    \/ \E n \in Node, failed \in SUBSET configured_symbols : RebalanceHandlers(n, failed)
    \/ \E n \in Node, failRenew \in SUBSET configured_symbols,
          failRelease \in SUBSET configured_symbols :
           ~rebalance_result[n].pending /\ LeaseRenewalLoop(n, failRenew, failRelease)

StepSpec == CoordInit /\ [][StepNext]_vars

\* C13: drop before release: once a rebalance tick has issued the lease release of a
\* symbol to the store, the node's drop handling of that symbol has already happened:
\* the symbol is unsubscribed, its token purged, and it is out of the strategy's owned set.
C13_DropBeforeRelease ==
    \A n \in Node : \A s \in Symbol :
        (rebalance_result[n].pending /\ s \in rebalance_result[n].release)
        => (/\ s \notin subscribed[n]
            /\ writer_tokens[n][s] = NoToken
            /\ s \notin owned_symbols[n])

----------------------------------------------------------------------------
(* SymbolState: order book and buffers of one symbol *)

\* RingBuffer.append on a full buffer refusing the item
append_keep_oldest(buffer, max_size, item) ==
    IF Len(buffer) = max_size THEN buffer ELSE Append(buffer, item)

\* RingBuffer.append: deque(maxlen=max_size).append, the oldest item discarded when full
append(buffer, max_size, item) ==
    IF Len(buffer) = max_size THEN Append(Tail(buffer), item) ELSE Append(buffer, item)

\* the prices of the levels of one side
levels(side) == {p \in Price : side[p] > 0}

\* _recompute_top: the prices highest first, cut to max_levels
top_bids(side) ==
    LET sorted == CHOOSE q \in [1..Cardinality(levels(side)) -> levels(side)] :
                      \A i, j \in DOMAIN q : i < j => q[i] > q[j]
    IN IF Len(sorted) > max_levels THEN SubSeq(sorted, 1, max_levels) ELSE sorted

\* _recompute_top: the prices lowest first, cut to max_levels
top_asks(side) ==
    LET sorted == CHOOSE q \in [1..Cardinality(levels(side)) -> levels(side)] :
                      \A i, j \in DOMAIN q : i < j => q[i] < q[j]
    IN IF Len(sorted) > max_levels THEN SubSeq(sorted, 1, max_levels) ELSE sorted

get_best_bid(side) ==
    IF Len(top_bids(side)) > 0
    THEN [price |-> top_bids(side)[1], qty |-> side[top_bids(side)[1]]]
    ELSE NoLevel

get_best_ask(side) ==
    IF Len(top_asks(side)) > 0
    THEN [price |-> top_asks(side)[1], qty |-> side[top_asks(side)[1]]]
    ELSE NoLevel

\* OrderBookL2.update_bid / update_ask: quantity 0 removes the level
update_level(side, price, qty) == [side EXCEPT ![price] = qty]

update_order_book_bid(price, qty) ==
    /\ bids' = update_level(bids, price, qty)
    /\ best_bid' = get_best_bid(update_level(bids, price, qty))
    /\ quantity_history' = IF qty > 0 THEN append(quantity_history, MaxQuantityHistory, qty)
                           ELSE quantity_history
    /\ overflowed' = IF qty > 0 /\ Len(quantity_history) = MaxQuantityHistory
                     THEN overflowed \cup {"quantity_history"} ELSE overflowed
    /\ UNCHANGED <<coordVars, hrwVars, stepVars, pubVars, enrichVars, cycleVars, calcVars, asks, best_ask, last_trade,
                   trade_buffer_10s, trade_buffer_30s, trade_buffer_30min>>

update_order_book_ask(price, qty) ==
    /\ asks' = update_level(asks, price, qty)
    /\ best_ask' = get_best_ask(update_level(asks, price, qty))
    /\ quantity_history' = IF qty > 0 THEN append(quantity_history, MaxQuantityHistory, qty)
                           ELSE quantity_history
    /\ overflowed' = IF qty > 0 /\ Len(quantity_history) = MaxQuantityHistory
                     THEN overflowed \cup {"quantity_history"} ELSE overflowed
    /\ UNCHANGED <<coordVars, hrwVars, stepVars, pubVars, enrichVars, cycleVars, calcVars, bids, best_bid, last_trade,
                   trade_buffer_10s, trade_buffer_30s, trade_buffer_30min>>

\* the books the upstream cache can hold: every bid below every ask
UpstreamBooks ==
    {book \in [bids : [Price -> Qty], asks : [Price -> Qty]] :
        \A p \in levels(book.bids), q \in levels(book.asks) : p < q}

\* on_order_book_deltas: best bid and ask are replaced when the upstream book has one,
\* the levels are replaced by the upstream levels
on_order_book_deltas(book) ==
    /\ best_bid' = IF levels(book.bids) # {} THEN get_best_bid(book.bids) ELSE best_bid
    /\ best_ask' = IF levels(book.asks) # {} THEN get_best_ask(book.asks) ELSE best_ask
    /\ bids' = book.bids
    /\ asks' = book.asks
    /\ UNCHANGED <<coordVars, hrwVars, stepVars, pubVars, enrichVars, cycleVars, calcVars, bufferVars>>

\* SymbolState.add_trade, called by on_trade_tick
add_trade(trade) ==
    /\ last_trade' = trade
    /\ trade_buffer_10s' = append(trade_buffer_10s, Max10s, trade)
    /\ trade_buffer_30s' = append(trade_buffer_30s, Max30s, trade)
    /\ trade_buffer_30min' = append(trade_buffer_30min, Max30min, trade)
    /\ overflowed' = overflowed
                       \cup (IF Len(trade_buffer_10s) = Max10s THEN {"trade_buffer_10s"} ELSE {})
                       \cup (IF Len(trade_buffer_30s) = Max30s THEN {"trade_buffer_30s"} ELSE {})
                       \cup (IF Len(trade_buffer_30min) = Max30min THEN {"trade_buffer_30min"} ELSE {})
    /\ UNCHANGED <<coordVars, hrwVars, stepVars, pubVars, enrichVars, cycleVars, calcVars, bookVars, quantity_history>>

StateInit == InitWith({}, {})

StateNext ==
    \/ \E price \in Price, qty \in Qty : update_order_book_bid(price, qty)
    \/ \E price \in Price, qty \in Qty : update_order_book_ask(price, qty)
    \/ \E book \in UpstreamBooks : on_order_book_deltas(book)
    \/ \E trade \in Trade : add_trade(trade)

StateSpec == StateInit /\ [][StateNext]_vars

\* the buffer after one more item: the item last, before it the former items in
\* their order, without the oldest when the buffer was full
Appended(before, after, max_size, item) ==
    /\ Len(after) = (IF Len(before) < max_size THEN Len(before) + 1 ELSE max_size)
    /\ after[Len(after)] = item
    /\ \A i \in 1..(Len(after) - 1) : after[i] = before[Len(before) - (Len(after) - 1) + i]

\* C14: every buffer of a SymbolState holds at most max_size items; add_trade appends
\* the trade to all three trade buffers; appending to a full buffer removes exactly
\* the oldest item and keeps the order of the others.
C14_BuffersBounded ==
    /\ [](/\ Len(trade_buffer_10s) <= Max10s
          /\ Len(trade_buffer_30s) <= Max30s
          /\ Len(trade_buffer_30min) <= Max30min
          /\ Len(quantity_history) <= MaxQuantityHistory)
    /\ [][\A trade \in Trade : add_trade(trade) =>
              /\ Appended(trade_buffer_10s, trade_buffer_10s', Max10s, trade)
              /\ Appended(trade_buffer_30s, trade_buffer_30s', Max30s, trade)
              /\ Appended(trade_buffer_30min, trade_buffer_30min', Max30min, trade)]_vars
    /\ [][\A price \in Price, qty \in Qty :
              ((update_order_book_bid(price, qty) \/ update_order_book_ask(price, qty)) /\ qty > 0)
              => Appended(quantity_history, quantity_history', MaxQuantityHistory, qty)]_vars

\* C14 case: every buffer has discarded an item: all are full, the three trade buffers
\* end with the same trade, and the largest holds different trades
C14_Witness ==
    /\ overflowed = {"trade_buffer_10s", "trade_buffer_30s", "trade_buffer_30min", "quantity_history"}
    /\ Len(trade_buffer_10s) = Max10s
    /\ Len(trade_buffer_30s) = Max30s
    /\ Len(trade_buffer_30min) = Max30min
    /\ Len(quantity_history) = MaxQuantityHistory
    /\ trade_buffer_30min[1] # trade_buffer_30min[Max30min]
    /\ trade_buffer_30s[Max30s] = last_trade
    /\ trade_buffer_10s[Max10s] = last_trade
    /\ trade_buffer_30min[Max30min] = last_trade

\* C15: whenever best_bid and best_ask both exist, the best bid's price is below
\* the best ask's price.
C15_NoCrossedBook ==
    (best_bid # NoLevel /\ best_ask # NoLevel) => best_bid.price < best_ask.price

----------------------------------------------------------------------------
(* publish_report: serialization, SET with KEEPTTL, retries *)

\* the fast-cycle values a report can carry; "object" stands for a value json.dumps
\* raises TypeError on
Quote == {"q1", "q2", "object"}

\* generate_fast_report: writer, timestamp and the fast-cycle fields (quote stands for
\* spread, mid, micro, depth, flow and health); no slow-cycle field (0: key absent)
generate_fast_report(writer_token, at, quote) ==
    [writerToken |-> writer_token, updatedAt |-> at, fast |-> quote,
     volume_profile |-> 0, walls |-> 0, vacuums |-> 0, anomalies |-> 0,
     slow_cycle_updated_at |-> 0]

\* json.dumps: the text holding the report, <<>> when TypeError is raised
json_dumps(doc) == IF doc.fast = "object" THEN <<>> ELSE <<doc>>

\* json.loads of a stored text
json_loads(text) == text[1]

\* SET key value without KEEPTTL: the key loses its TTL
redis_set_plain(store, symbol, text, keepttl) ==
    [store EXCEPT ![symbol] = [ttl |-> NoExpiry, val |-> text]]

\* redis_client.set(key, value, keepttl): the value is replaced; with keepttl the TTL of
\* an existing key stays, a new key has none
redis_set(store, symbol, text, keepttl) ==
    [store EXCEPT ![symbol] = [ttl |-> IF keepttl THEN @.ttl ELSE NoExpiry, val |-> text]]

\* what one write attempt can end with: success, a falsy result, RedisError, another exception
Outcome == {"ok", "nil", "redis_error", "error"}

\* the retry loop from attempt (counted from 0) on, limit attempts at most
RECURSIVE publish_loop(_, _, _, _, _, _)
publish_loop(store, symbol, text, outcomes, attempt, limit) ==
    IF attempt >= limit
    THEN [result |-> FALSE, attempts |-> attempt, store |-> store]
    ELSE IF outcomes[attempt + 1] = "ok"
    THEN [result |-> TRUE, attempts |-> attempt + 1, store |-> redis_set(store, symbol, text, TRUE)]
    ELSE IF outcomes[attempt + 1] = "error"
    THEN [result |-> FALSE, attempts |-> attempt + 1, store |-> store]
    ELSE IF outcomes[attempt + 1] = "redis_error" /\ ~(attempt < limit - 1)
    THEN [result |-> FALSE, attempts |-> attempt + 1, store |-> store]
    ELSE publish_loop(store, symbol, text, outcomes, attempt + 1, limit)

\* the loop running once more than max_retries
publish_attempts_once_more(store, symbol, text, outcomes) ==
    publish_loop(store, symbol, text, outcomes, 0, max_retries + 1)

\* for attempt in range(max_retries)
publish_attempts(store, symbol, text, outcomes) ==
    publish_loop(store, symbol, text, outcomes, 0, max_retries)

\* publish_report with the outcome of each write attempt given
publish_with_retries(store, symbol, doc, outcomes) ==
    IF json_dumps(doc) = <<>>
    THEN [result |-> FALSE, attempts |-> 0, store |-> store]
    ELSE publish_attempts(store, symbol, json_dumps(doc), outcomes)

\* the states of one report key: absent, or a report with or without TTL
KeyStates ==
    {NoKey} \cup [ttl : {NoExpiry} \cup 1..MaxKeyTTL,
                  val : {json_dumps(generate_fast_report(1, 1, q)) : q \in {"q1", "q2"}}]

PubInit ==
    /\ CoordStart({}, {})
    /\ HrwIdle /\ StepIdle /\ StateIdle /\ EnrichIdle /\ CycleIdle /\ CalcIdle
    /\ kv \in [Symbol -> KeyStates]
    /\ pub = NoCall

\* one call of publish_report
PublishReport(symbol, doc, outcomes) ==
    /\ pub = NoCall
    /\ LET call == publish_with_retries(kv, symbol, doc, outcomes)
       IN /\ kv' = call.store
          /\ pub' = [report |-> <<doc>>, symbol |-> symbol, result |-> call.result,
                     outcomes |-> outcomes, attempts |-> call.attempts]
    /\ UNCHANGED <<coordVars, hrwVars, stepVars, stateVars, enrichVars, cycleVars, calcVars>>

\* time passes in the store: TTLs run down, a key whose TTL runs out is deleted
Expire ==
    /\ \E s \in Symbol : kv[s].ttl # NoExpiry
    /\ kv' = [s \in Symbol |->
                 IF kv[s].ttl = NoExpiry THEN kv[s]
                 ELSE IF kv[s].ttl = 1 THEN NoKey
                 ELSE [kv[s] EXCEPT !.ttl = @ - 1]]
    /\ UNCHANGED <<coordVars, hrwVars, stepVars, stateVars, enrichVars, cycleVars, calcVars, pub>>

PubNext ==
    \/ \E symbol \in Symbol, quote \in Quote, outcomes \in [1..(max_retries + 1) -> Outcome] :
           PublishReport(symbol, generate_fast_report(1, 2, quote), outcomes)
    \/ Expire

PubSpec == PubInit /\ [][PubNext]_vars

\* C17: publish_report makes at most max_retries write attempts, stops at the first
\* successful one and returns true, returns false when every attempt it made failed,
\* and returns false without any write attempt when the report cannot be serialized.
C17_BoundedRetries ==
    pub # NoCall =>
        /\ pub.attempts <= max_retries
        /\ \A j \in 1..(pub.attempts - 1) : pub.outcomes[j] # "ok"
        /\ pub.result <=> (pub.attempts >= 1 /\ pub.outcomes[pub.attempts] = "ok")
        /\ (\A j \in 1..max_retries : pub.outcomes[j] # "ok") => ~pub.result
        /\ json_dumps(pub.report[1]) = <<>> => (pub.attempts = 0 /\ ~pub.result)

\* C17 case: the write succeeded at the last attempt allowed, after failures of both kinds
C17_Witness ==
    /\ pub # NoCall
    /\ pub.result
    /\ pub.attempts = max_retries
    /\ pub.outcomes[1] = "redis_error"
    /\ pub.outcomes[2] = "nil"

\* C18: a successful publish_report changes only the value of report:{s}: the key keeps
\* its TTL, a key without TTL stays without one, and no other key is modified.
C18_PublishFrame ==
    [][(pub = NoCall /\ pub' # NoCall /\ pub'.result) =>
          /\ kv'[pub'.symbol].val = json_dumps(pub'.report[1])
          /\ kv'[pub'.symbol].ttl = kv[pub'.symbol].ttl
          /\ \A s \in Symbol \ {pub'.symbol} : kv'[s] = kv[s]
          /\ storeVars' = storeVars]_vars

\* C18 case: a report was published over a key that has a TTL, next to another key
C18_Witness ==
    /\ pub # NoCall
    /\ pub.result
    /\ kv[pub.symbol].ttl # NoExpiry
    /\ kv[pub.symbol].val = json_dumps(pub.report[1])
    /\ \E s \in Symbol \ {pub.symbol} : kv[s] # NoKey

----------------------------------------------------------------------------
(* enrich_report *)

\* enrich_report built afresh, the timestamp of the report set anew
enrich_report_restamped(base, metrics, at) ==
    [writerToken |-> base.writerToken, updatedAt |-> at, fast |-> base.fast,
     volume_profile |-> metrics.volume_profile, walls |-> metrics.liquidity_walls,
     vacuums |-> metrics.liquidity_vacuums, anomalies |-> metrics.anomalies,
     slow_cycle_updated_at |-> at]

\* enrich_report: a copy of the base report; each metric that is present replaces its
\* field, slow_cycle_updated_at is set to the time of the call
enrich_report(base, metrics, at) ==
    [base EXCEPT
        !.volume_profile = IF metrics.volume_profile # 0 THEN metrics.volume_profile ELSE @,
        !.walls = IF metrics.liquidity_walls # 0 THEN metrics.liquidity_walls ELSE @,
        !.vacuums = IF metrics.liquidity_vacuums # 0 THEN metrics.liquidity_vacuums ELSE @,
        !.anomalies = IF metrics.anomalies # 0 THEN metrics.anomalies ELSE @,
        !.slow_cycle_updated_at = at]

\* the reports read from the store: fast reports, enriched before (value 1) or not
BaseReports ==
    [writerToken : {1}, updatedAt : 1..MaxClock, fast : {"q1", "q2"},
     volume_profile : {0, 1}, walls : {0, 1}, vacuums : {0, 1}, anomalies : {0, 1},
     slow_cycle_updated_at : 0..MaxClock]

\* the metrics calculate_slow_metrics can return: each absent or a new value (2)
SlowMetrics ==
    [volume_profile : {0, 2}, anomalies : {0, 2}, liquidity_walls : {0, 2},
     liquidity_vacuums : {0, 2}]

EnrichInit ==
    /\ CoordStart({}, {})
    /\ HrwIdle /\ StepIdle /\ StateIdle /\ PubIdle /\ CycleIdle /\ CalcIdle
    /\ now \in 1..MaxClock
    /\ base_report \in BaseReports
    /\ slow_metrics \in SlowMetrics
    /\ enriched = <<>>

EnrichReport ==
    /\ enriched' = <<enrich_report(base_report, slow_metrics, now)>>
    /\ UNCHANGED <<coordVars, hrwVars, stepVars, stateVars, pubVars, cycleVars, calcVars, now, base_report,
                   slow_metrics>>

EnrichNext == EnrichReport

EnrichSpec == EnrichInit /\ [][EnrichNext]_vars

\* C19: the report enrich_report returns equals the base report in every field other
\* than analytics.volume_profile, liquidity.walls, liquidity.vacuums, anomalies and
\* slow_cycle_updated_at: the writer, the timestamp and the fast-cycle fields (spread,
\* mid, micro, depth, flow, health) are those of the base report.
C19_EnrichFrame ==
    enriched # <<>> =>
        /\ enriched[1].writerToken = base_report.writerToken
        /\ enriched[1].updatedAt = base_report.updatedAt
        /\ enriched[1].fast = base_report.fast

\* C19 case: a report enriched before is enriched again, at a later time, with all metrics
C19_Witness ==
    /\ enriched # <<>>
    /\ base_report.volume_profile = 1 /\ enriched[1].volume_profile = 2
    /\ base_report.walls = 1 /\ enriched[1].walls = 2
    /\ base_report.vacuums = 1 /\ enriched[1].vacuums = 2
    /\ base_report.anomalies = 1 /\ enriched[1].anomalies = 2
    /\ base_report.updatedAt < now
    /\ enriched[1].slow_cycle_updated_at = now

----------------------------------------------------------------------------
(* Fast and slow cycle of a node in single-instance mode, publishing report:BTCUSDT *)

\* the guard left out: no invocation is taken to be running
slow_cycle_unguarded(running) == FALSE

\* on_slow_cycle: if self._slow_cycle_running
previous_cycle_running(running) == running

\* the outcomes of the write attempts of one publish: the store answers, or is down
StoreUp == [j \in 1..(max_retries + 1) |-> "ok"]

StoreDown == [j \in 1..(max_retries + 1) |-> "redis_error"]

\* the metrics of one slow cycle: nothing found, or every metric
AllMetrics == [volume_profile |-> 2, anomalies |-> 2, liquidity_walls |-> 2, liquidity_vacuums |-> 2]

CycleInit == InitWith({"BTCUSDT"}, {})

ClockTick ==
    /\ now < MaxClock
    /\ now' = now + 1
    /\ UNCHANGED <<coordVars, hrwVars, stepVars, stateVars, pubVars, cycleVars, calcVars, base_report,
                   slow_metrics, enriched>>

\* on_fast_cycle for the owned symbol: generate_fast_report, publish_report
on_fast_cycle(quote, outcomes) ==
    /\ kv' = publish_with_retries(kv, "BTCUSDT",
                                  generate_fast_report(default_writer_token, now, quote),
                                  outcomes).store
    /\ UNCHANGED <<coordVars, hrwVars, stepVars, stateVars, pub, enrichVars, cycleVars, calcVars>>

\* on_slow_cycle up to the body: the invocation is skipped and counted while the flag is
\* set, else it sets the flag
SlowBegin(i) ==
    /\ slow_pc[i] = "idle"
    /\ IF previous_cycle_running(slow_cycle_running)
       THEN /\ slow_cycle_skip_count < MaxSkip
            /\ slow_cycle_skip_count' = slow_cycle_skip_count + 1
            /\ UNCHANGED <<slow_cycle_running, slow_pc>>
       ELSE /\ slow_cycle_running' = TRUE
            /\ slow_pc' = [slow_pc EXCEPT ![i] = "running"]
            /\ UNCHANGED slow_cycle_skip_count
    /\ UNCHANGED <<coordVars, hrwVars, stepVars, stateVars, pubVars, enrichVars, calcVars>>

\* the ways the try block of on_slow_cycle is left: the loop over the symbols ran to its
\* end, the symbol's iteration raised and its except clause logged the error, or an
\* exception left the block uncaught
SlowExits == {"returned", "symbol_error", "raised"}

\* the flag cleared after the try block instead of in a finally clause
flag_cleared_after_block(running, exit) == IF exit = "raised" THEN running ELSE FALSE

\* on_slow_cycle, lines 419-420: finally: self._slow_cycle_running = False
flag_cleared_finally(running, exit) == FALSE

\* the body of on_slow_cycle for the owned symbol: calculate_slow_metrics, read
\* report:{s}, enrich and publish when there is a report; then the flag is cleared
SlowRun(i, metrics, outcomes) ==
    /\ slow_pc[i] = "running"
    /\ kv' = IF kv["BTCUSDT"].val # <<>>
             THEN publish_with_retries(kv, "BTCUSDT",
                                       enrich_report(json_loads(kv["BTCUSDT"].val), metrics, now),
                                       outcomes).store
             ELSE kv
    /\ slow_cycle_running' = flag_cleared_finally(slow_cycle_running, "returned")
    /\ slow_pc' = [slow_pc EXCEPT ![i] = "idle"]
    /\ UNCHANGED <<coordVars, hrwVars, stepVars, stateVars, pub, enrichVars, calcVars,
                   slow_cycle_skip_count>>

\* the body of on_slow_cycle ending in an exception before anything is published: in the
\* symbol's iteration (caught at line 411), or outside of it (passed on to the caller)
SlowFail(i, exit) ==
    /\ slow_pc[i] = "running"
    /\ exit # "returned"
    /\ slow_cycle_running' = flag_cleared_finally(slow_cycle_running, exit)
    /\ slow_pc' = [slow_pc EXCEPT ![i] = "idle"]
    /\ UNCHANGED <<coordVars, hrwVars, stepVars, stateVars, pubVars, enrichVars, calcVars,
                   slow_cycle_skip_count>>

CycleNext ==
    \/ ClockTick
    \/ \E quote \in {"q1", "q2"}, outcomes \in {StoreUp, StoreDown} : on_fast_cycle(quote, outcomes)
    \/ \E i \in Invocation : SlowBegin(i)
    \/ \E i \in Invocation, metrics \in {NoMetrics, AllMetrics}, outcomes \in {StoreUp, StoreDown} :
           SlowRun(i, metrics, outcomes)
    \/ \E i \in Invocation, exit \in SlowExits : SlowFail(i, exit)

CycleSpec == CycleInit /\ [][CycleNext]_vars

\* C16: an on_slow_cycle invocation that begins while another has not completed adds
\* exactly one to the skip counter and returns without computing, reading or
\* publishing; at no time are two slow-cycle runs in progress.
C16_SlowCycleGuard ==
    /\ [][\A i \in Invocation :
              (SlowBegin(i) /\ \E j \in Invocation : slow_pc[j] = "running")
              => /\ slow_cycle_skip_count' = slow_cycle_skip_count + 1
                 /\ slow_pc' = slow_pc
                 /\ kv' = kv]_vars
    /\ [](Cardinality({i \in Invocation : slow_pc[i] = "running"}) <= 1)

\* C16 case: an invocation was skipped while another is still running
C16_Witness ==
    /\ slow_cycle_skip_count > 0
    /\ \E i \in Invocation : slow_pc[i] = "running"

\* C37: the slow-cycle guard is released on every exit path: when an invocation
\* completes (the body returned, a symbol's iteration raised, or an exception left the
\* body) the running flag is false and the skip counter is as it was; with no
\* invocation under way the flag is false and the next invocation runs; the skip
\* counter grows only by one per invocation that arrives while another is running.
C37_GuardReleased ==
    /\ []((\A i \in Invocation : slow_pc[i] = "idle") => ~slow_cycle_running)
    /\ [][/\ \A i \in Invocation :
               /\ (slow_pc[i] = "running" /\ slow_pc'[i] = "idle")
                  => (~slow_cycle_running' /\ slow_cycle_skip_count' = slow_cycle_skip_count)
               /\ (SlowBegin(i) /\ \A j \in Invocation : slow_pc[j] = "idle")
                  => (slow_pc'[i] = "running" /\ slow_cycle_skip_count' = slow_cycle_skip_count)
           /\ slow_cycle_skip_count' # slow_cycle_skip_count
              => /\ \E j \in Invocation : slow_pc[j] = "running"
                 /\ slow_pc' = slow_pc
                 /\ slow_cycle_skip_count' = slow_cycle_skip_count + 1]_vars

\* C37 case: a cycle during which an invocation was skipped has completed, and the next
\* invocation has entered the body
C37_Witness ==
    /\ slow_cycle_skip_count > 0
    /\ slow_cycle_running
    /\ Cardinality({i \in Invocation : slow_pc[i] = "running"}) = 1

\* the slow-cycle fields of the report stored for the symbol
enrichment(store) ==
    LET doc == json_loads(store["BTCUSDT"].val)
    IN <<doc.volume_profile, doc.walls, doc.vacuums, doc.anomalies, doc.slow_cycle_updated_at>>

\* C20: once a slow cycle has written the enrichment fields to report:{s}, a fast-cycle
\* publish leaves them in the stored report.
C20_EnrichmentKept ==
    [][(/\ kv["BTCUSDT"].val # <<>>
        /\ json_loads(kv["BTCUSDT"].val).slow_cycle_updated_at # 0
        /\ \E quote \in {"q1", "q2"}, outcomes \in {StoreUp, StoreDown} : on_fast_cycle(quote, outcomes))
       => enrichment(kv') = enrichment(kv)]_vars

(***************************************************************************)
(* calculate_health_score (calculators/health.py), studied on its own.     *)
(* An optional argument is <<>> for None and <<v>> for a value.  The data  *)
(* age is in milliseconds, the spread in thousandths of a basis point      *)
(* (49875 is 49.875 bps), the imbalance in ten-thousandths (-3333 is       *)
(* -0.3333).  Every penalty is a whole number, so the score stays a whole  *)
(* number and round(score, 1) leaves it as it is.                          *)
(***************************************************************************)
abs(x) == IF x < 0 THEN -x ELSE x

max(a, b) == IF a >= b THEN a ELSE b

min(a, b) == IF a <= b THEN a ELSE b

\* lines 32-45: the freshness component sets the status
freshness(h, age) ==
    IF age = <<>>
    THEN [status |-> "down", score |-> h.score - 40, issues |-> Append(h.issues, "no_data")]
    ELSE IF age[1] > 2000
    THEN [status |-> "down", score |-> h.score - 40, issues |-> Append(h.issues, "stale_data")]
    ELSE IF age[1] > 1000
    THEN [status |-> "degraded", score |-> h.score - 20,
          issues |-> Append(h.issues, "degraded_freshness")]
    ELSE [h EXCEPT !.status = "ok"]

\* lines 48-58: only a spread above 100 bps touches the status
spread_quality(h, spread) ==
    IF spread = <<>>
    THEN [h EXCEPT !.score = @ - 30, !.issues = Append(@, "no_spread")]
    ELSE IF spread[1] > 100000
    THEN [status |-> IF h.status = "ok" THEN "degraded" ELSE h.status,
          score |-> h.score - 30, issues |-> Append(h.issues, "wide_spread")]
    ELSE IF spread[1] > 50000
    THEN [h EXCEPT !.score = @ - 15, !.issues = Append(@, "moderate_spread")]
    ELSE h

\* lines 61-70: only an imbalance of 0.6 or more touches the status
depth_balance(h, imb) ==
    IF imb = <<>> THEN h
    ELSE IF abs(imb[1]) >= 6000
    THEN [status |-> IF h.status = "ok" THEN "degraded" ELSE h.status,
          score |-> h.score - 20, issues |-> Append(h.issues, "severe_imbalance")]
    ELSE IF abs(imb[1]) >= 3000
    THEN [h EXCEPT !.score = @ - 10, !.issues = Append(@, "moderate_imbalance")]
    ELSE h

\* lines 73-77
anomaly_presence(h, anomalies) ==
    IF anomalies
    THEN [status |-> IF h.status = "ok" THEN "degraded" ELSE h.status,
          score |-> h.score - 10, issues |-> Append(h.issues, "anomalies_detected")]
    ELSE h

calculate_health_score(age, spread, imb, anomalies) ==
    LET start == [status |-> None, score |-> 100, issues |-> <<>>]
        h == anomaly_presence(depth_balance(spread_quality(freshness(start, age), spread), imb),
                              anomalies)
    IN  [h EXCEPT !.score = max(0, min(100, @))]

AgeSamples == {<<>>} \cup {<<v>> : v \in {0, 500, 1000, 1001, 2000, 2001, 2500}}

SpreadSamples == {<<>>} \cup {<<v>> : v \in {0, 49875, 50000, 50001, 100000, 100001, 120000}}

ImbalanceSamples ==
    {<<>>} \cup {<<v>> : v \in {-10000, -6000, -5999, -3333, -3000, -2999, 0, 2999, 3000, 6000}}

HealthInit ==
    /\ CoordStart({}, {})
    /\ HrwIdle /\ StepIdle /\ StateIdle /\ PubIdle /\ EnrichIdle /\ CycleIdle
    /\ StrategyIdle /\ ConfigIdle /\ ProfileIdle /\ OrderBookIdle /\ ExtIdle
    /\ data_age_ms \in AgeSamples
    /\ spread_bps \in SpreadSamples
    /\ imbalance \in ImbalanceSamples
    /\ has_anomalies \in BOOLEAN
    /\ health = NoHealth

CalculateHealth ==
    /\ health = NoHealth
    /\ health' = calculate_health_score(data_age_ms, spread_bps, imbalance, has_anomalies)
    /\ UNCHANGED <<coordVars, hrwVars, stepVars, stateVars, pubVars, enrichVars, cycleVars,
                   strategyVars, configVars, profileVars, orderBookVars, extVars, data_age_ms, spread_bps,
                   imbalance, has_anomalies>>

HealthNext == CalculateHealth

HealthSpec == HealthInit /\ [][HealthNext]_vars

\* the penalties of the specification's table
freshness_penalty ==
    IF data_age_ms = <<>> THEN 40
    ELSE IF data_age_ms[1] > 2000 THEN 40
    ELSE IF data_age_ms[1] >= 1000 THEN 20
    ELSE 0

spread_penalty ==
    IF spread_bps = <<>> THEN 30
    ELSE IF spread_bps[1] > 100000 THEN 30
    ELSE IF spread_bps[1] > 50000 THEN 15
    ELSE 0

imbalance_penalty ==
    IF imbalance = <<>> THEN 0
    ELSE IF abs(imbalance[1]) >= 6000 THEN 20
    ELSE IF abs(imbalance[1]) >= 3000 THEN 10
    ELSE 0

anomaly_penalty == IF has_anomalies THEN 10 ELSE 0

\* C21: the status returned is "down" exactly when the data age is unknown or above 2000 ms,
\* "degraded" exactly when it is not down and a penalty was subtracted from the score, and
\* "ok" otherwise.
C21_HealthStatus ==
    health # NoHealth =>
        LET down == data_age_ms = <<>> \/ data_age_ms[1] > 2000
        IN  health.status = IF down THEN "down"
                            ELSE IF health.score < 100 THEN "degraded"
                            ELSE "ok"

\* C22: the score returned is 100 minus the penalties of the table (40 for an unknown age or an
\* age above 2000 ms, 20 for an age from 1000 to 2000 ms; 30 for a missing spread or one above
\* 100 bps, 15 for one above 50 and at most 100 bps; 20 for |imbalance| >= 0.6, 10 for
\* |imbalance| >= 0.3; 10 for anomalies) and lies in [0, 100].
C22_HealthScore ==
    health # NoHealth =>
        /\ health.score = 100 - (freshness_penalty + spread_penalty + imbalance_penalty
                                 + anomaly_penalty)
        /\ health.score \in 0..100

(***************************************************************************)
(* The handlers of one MarketAnalyticsStrategy in coordinated mode,        *)
(* studied on their own: node A with one symbol configured, node B as the  *)
(* other lease holder.  When the rebalance and renewal loops acquire and   *)
(* drop the symbol is left open; each handler runs as a whole.             *)
(***************************************************************************)
Strategist == "A"

\* what this study never changes
strategyFrame == <<hrwVars, stepVars, stateVars, pubVars, enrichVars, cycleVars, healthVars,
                   configVars, profileVars, orderBookVars, extVars,
                   configured_symbols, member_ttl, acq_age, up, pc, histVars>>

\* SymbolState(symbol=symbol)
NewState == [best_bid |-> 0, best_ask |-> 0, last_trade |-> None, present |-> TRUE, top_bids |-> 0,
             top_asks |-> 0]

\* _initialize_symbol that replaces the state it finds
initialize_symbol_afresh(state) == NewState

\* _initialize_symbol: a state is created only when the symbol has none
initialize_symbol(state) == IF ~state.present THEN NewState ELSE state

\* the upstream order book of a delivery: the best price of each side (0: the side is empty)
Books == [bid : 0..1, ask : 0..1]

\* on_order_book_deltas past its guard: best bid and ask are replaced when the upstream book
\* has one (and kept when it has none), the levels are replaced by the upstream levels
order_book_deltas(state, book) ==
    IF ~state.present THEN state
    ELSE [state EXCEPT !.best_bid = IF book.bid # 0 THEN book.bid ELSE @,
                       !.best_ask = IF book.ask # 0 THEN book.ask ELSE @,
                       !.top_bids = IF book.bid # 0 THEN 1 ELSE 0,
                       !.top_asks = IF book.ask # 0 THEN 1 ELSE 0]

\* on_trade_tick past its guard: add_trade
trade_tick(state, trade) ==
    IF ~state.present THEN state ELSE [state EXCEPT !.last_trade = trade]

\* calculate_spread_metrics returns a dict
spread_metrics(state) == state.best_bid # 0 /\ state.best_ask # 0

\* calculate_depth_metrics returns a dict
depth_metrics(state) == state.top_bids # 0 /\ state.top_asks # 0

\* generate_fast_report without its three returns of None
fast_report_unchecked(state, node_id, writer_token) == [token |-> writer_token, node |-> node_id]

\* generate_fast_report: None (NoReport) without best bid or ask, spread metrics or depth
\* metrics, else the report, of which the writer is kept
fast_report(state, node_id, writer_token) ==
    IF state.best_bid = 0 \/ state.best_ask = 0 THEN NoReport
    ELSE IF ~spread_metrics(state) THEN NoReport
    ELSE IF ~depth_metrics(state) THEN NoReport
    ELSE [token |-> writer_token, node |-> node_id]

\* the fencing check that lets every token pass
fencing_check_unverified(current_token, lease_info) ==
    IF current_token = NoToken THEN "report_skipped_no_lease" ELSE "pass"

\* on_fast_cycle, lines 224-242: the symbol is skipped without a token of its own, and
\* skipped as a conflict when the store has lease information with another token
fencing_check(current_token, lease_info) ==
    IF current_token = NoToken THEN "report_skipped_no_lease"
    ELSE IF ~(lease_info.owner = None /\ lease_info.token = NoToken)
            /\ lease_info.token # current_token
    THEN "lease_conflict"
    ELSE "pass"

\* one iteration of on_fast_cycle's loop: the log event it ends with
fast_cycle_symbol(n, s, info_ok, publish_ok) ==
    LET current_token == writer_tokens[n][s]
        check == fencing_check(current_token, get_lease_info(lease[s], info_ok))
    IN  IF check # "pass" THEN check
        ELSE IF fast_report(symbol_states[s], n, current_token) = NoReport
        THEN "report_skipped_insufficient_data"
        ELSE IF publish_ok THEN "report_published"
        ELSE "report_publish_failed"

\* on_stop that releases no lease
stop_leases_held(n, ok) == lease

\* on_stop, lines 912-923: the leases after the release of every owned symbol
stop_leases(n, ok) ==
    [s \in Symbol |-> IF s \in owned_symbols[n] THEN release(lease[s], n, ok).lease ELSE lease[s]]

StrategyInit ==
    /\ CoordStart({"BTCUSDT"}, {Strategist})
    /\ HrwIdle /\ StepIdle /\ StateIdle /\ PubIdle /\ EnrichIdle /\ CycleIdle
    /\ HealthIdle /\ ConfigIdle /\ ProfileIdle /\ OrderBookIdle /\ ExtIdle
    /\ symbol_states = [s \in Symbol |-> NoState]
    /\ tasks = {"heartbeat", "rebalance", "lease_renewal"}
    /\ timers = {"fast_cycle", "slow_cycle"}
    /\ NoCycleOutput
    /\ stop = NotStopped
    /\ written_after_stop = {}
    /\ faults = NoFaults

\* a handler run that is no report cycle leaves no cycle output
QuietRun(n) ==
    /\ fast_log' = [s \in Symbol |-> "-"]
    /\ report_publish_rate' = [s \in Symbol |-> 0]
    /\ written' = {}
    /\ lease_conflicts' = [lease_conflicts EXCEPT ![n] = 0]
    /\ UNCHANGED <<written_after_stop, faults>>

\* the rebalance loop acquires s: _acquire_symbol, then _on_symbol_acquired_async
SymbolAcquired(n, s, ok) ==
    /\ "rebalance" \in tasks
    /\ s \in configured_symbols \ ctrl_owned[n]
    /\ lease[s].token < MaxToken
    /\ LET r == acquire_symbol(lease[s], n, ok)
           token == get_token_for_symbol([symbol_tokens[n] EXCEPT ![s] = r.token], s)
       IN  /\ lease' = [lease EXCEPT ![s] = r.lease]
           /\ IF r.token = NoToken
              THEN UNCHANGED <<ctrl_owned, symbol_tokens, stratVars, symbol_states>>
              ELSE /\ ctrl_owned' = [ctrl_owned EXCEPT ![n] = @ \cup {s}]
                   /\ symbol_tokens' = [symbol_tokens EXCEPT ![n][s] = r.token]
                   /\ writer_tokens' = [writer_tokens EXCEPT ![n][s] = token]
                   /\ symbol_states' = [symbol_states EXCEPT ![s] = initialize_symbol(@)]
                   /\ subscribed' = [subscribed EXCEPT ![n] = @ \cup {s}]
                   /\ owned_symbols' = [owned_symbols EXCEPT ![n] = @ \cup {s}]
    /\ QuietRun(n)
    /\ UNCHANGED <<strategyFrame, report, tasks, timers, stop>>

\* _on_symbol_dropped_async for s, called by the rebalance loop after the controller's
\* release or by the renewal loop; _unsubscribe_symbol logs a failure and goes on
SymbolDropped(n, s, via, unsubscribed, ok) ==
    /\ via \in tasks
    /\ s \in owned_symbols[n]
    /\ subscribed' = [subscribed EXCEPT ![n] = IF unsubscribed THEN @ \ {s} ELSE @]
    /\ lease' = [lease EXCEPT ![s] =
                    IF via = "rebalance"
                    THEN on_symbol_dropped(release_symbol(@, n, ok), n, ok)
                    ELSE on_symbol_dropped(@, n, ok)]
    /\ writer_tokens' = [writer_tokens EXCEPT ![n][s] = NoToken]
    /\ owned_symbols' = [owned_symbols EXCEPT ![n] = @ \ {s}]
    /\ IF via = "rebalance"
       THEN /\ ctrl_owned' = [ctrl_owned EXCEPT ![n] = @ \ {s}]
            /\ symbol_tokens' = [symbol_tokens EXCEPT ![n][s] = NoToken]
       ELSE UNCHANGED <<ctrl_owned, symbol_tokens>>
    /\ QuietRun(n)
    /\ UNCHANGED <<strategyFrame, report, symbol_states, tasks, timers, stop>>

\* on_order_book_deltas for a delivery of symbol s
OrderBookDeltas(n, s, book) ==
    /\ s \in subscribed[n]
    /\ symbol_states' = [symbol_states EXCEPT ![s] = order_book_deltas(@, book)]
    /\ QuietRun(n)
    /\ UNCHANGED <<strategyFrame, storeVars, ctrl_owned, symbol_tokens, stratVars, tasks, timers,
                   stop>>

\* on_trade_tick for a delivery of symbol s
TradeTick(n, s, trade) ==
    /\ s \in subscribed[n]
    /\ symbol_states' = [symbol_states EXCEPT ![s] = trade_tick(@, trade)]
    /\ QuietRun(n)
    /\ UNCHANGED <<strategyFrame, storeVars, ctrl_owned, symbol_tokens, stratVars, tasks, timers,
                   stop>>

\* the lease of s has run out and node B acquires it
LeaseTakeover(s) ==
    /\ lease[s].owner # "B"
    /\ lease[s].token < MaxToken
    /\ lease' = [lease EXCEPT ![s] = acquire_script([@ EXCEPT !.owner = None, !.ttl = 0], "B").lease]
    /\ UNCHANGED <<strategyFrame, report, ctrl_owned, symbol_tokens, stratVars, lease_conflicts,
                   strategyVars>>

\* on_fast_cycle: every owned symbol that has a state, each in its own try block
FastCycle(n, info_failed, publish_failed) ==
    /\ "fast_cycle" \in timers
    /\ LET owned_states == {s \in owned_symbols[n] : symbol_states[s].present}
           log == [s \in Symbol |->
                      IF s \in owned_states
                      THEN fast_cycle_symbol(n, s, s \notin info_failed, s \notin publish_failed)
                      ELSE "-"]
           published == {s \in Symbol : log[s] = "report_published"}
       IN  /\ report' = [s \in Symbol |->
                            IF s \in published
                            THEN fast_report(symbol_states[s], n, writer_tokens[n][s])
                            ELSE report[s]]
           /\ fast_log' = log
           /\ lease_conflicts' = [lease_conflicts EXCEPT ![n] =
                                     Cardinality({s \in Symbol : log[s] = "lease_conflict"})]
           /\ report_publish_rate' = [s \in Symbol |-> IF s \in published THEN 1 ELSE 0]
           /\ written' = published
           /\ written_after_stop' = IF stop.done THEN written_after_stop \cup published ELSE {}
    /\ UNCHANGED <<strategyFrame, lease, ctrl_owned, symbol_tokens, stratVars, symbol_states,
                   tasks, timers, stop, faults>>

\* on_slow_cycle: every owned symbol that has a state; the report read from the store is
\* enriched and written back, its writer kept
SlowCycle(n, failed) ==
    /\ "slow_cycle" \in timers
    /\ LET enriched_symbols == {s \in owned_symbols[n] :
                                   /\ symbol_states[s].present
                                   /\ report[s] # NoReport
                                   /\ s \notin failed}
       IN  /\ written' = enriched_symbols
           /\ written_after_stop' = IF stop.done THEN written_after_stop \cup enriched_symbols
                                    ELSE {}
    /\ fast_log' = [s \in Symbol |-> "-"]
    /\ report_publish_rate' = [s \in Symbol |-> 0]
    /\ lease_conflicts' = [lease_conflicts EXCEPT ![n] = 0]
    /\ UNCHANGED <<strategyFrame, storeVars, ctrl_owned, symbol_tokens, stratVars, symbol_states,
                   tasks, timers, stop, faults>>

\* on_stop: the three tasks are cancelled, the lease of every owned symbol is released, the
\* fast-cycle timer is cancelled, the owned symbols are unsubscribed, the three maps cleared
OnStop(n, ok) ==
    /\ ~stop.done
    /\ tasks' = {}
    /\ lease' = stop_leases(n, ok)
    /\ timers' = timers \ {"fast_cycle"}
    /\ subscribed' = [subscribed EXCEPT ![n] = @ \ owned_symbols[n]]
    /\ symbol_states' = [s \in Symbol |-> NoState]
    /\ owned_symbols' = [owned_symbols EXCEPT ![n] = {}]
    /\ writer_tokens' = [writer_tokens EXCEPT ![n] = [s \in Symbol |-> NoToken]]
    /\ stop' = [done |-> TRUE, owned |-> owned_symbols[n], reachable |-> ok]
    /\ QuietRun(n)
    /\ UNCHANGED <<strategyFrame, report, ctrl_owned, symbol_tokens>>

StrategyNext ==
    \/ \E s \in configured_symbols, ok \in BOOLEAN : SymbolAcquired(Strategist, s, ok)
    \/ \E s \in configured_symbols, via \in {"rebalance", "lease_renewal"},
           unsubscribed, ok \in BOOLEAN :
           SymbolDropped(Strategist, s, via, unsubscribed, ok)
    \/ \E s \in configured_symbols, book \in Books : OrderBookDeltas(Strategist, s, book)
    \/ \E s \in configured_symbols, trade \in Trade : TradeTick(Strategist, s, trade)
    \/ \E s \in configured_symbols : LeaseTakeover(s)
    \/ \E info_failed, publish_failed \in SUBSET configured_symbols :
           FastCycle(Strategist, info_failed, publish_failed)
    \/ \E failed \in SUBSET configured_symbols : SlowCycle(Strategist, failed)
    \/ \E ok \in BOOLEAN : OnStop(Strategist, ok)

StrategySpec == StrategyInit /\ [][StrategyNext]_vars

(***************************************************************************)
(* on_fast_cycle over two symbols: the states it can find the strategy,    *)
(* the symbol states and the lease store in, and one run of the handler.   *)
(***************************************************************************)
\* the states of a symbol the strategy can hold: the best price of a side stays when its
\* levels are gone
BookStates ==
    {st \in [best_bid : 0..1, best_ask : 0..1, last_trade : {None}, present : {TRUE},
             top_bids : 0..1, top_asks : 0..1] :
        /\ st.top_bids # 0 => st.best_bid # 0
        /\ st.top_asks # 0 => st.best_ask # 0}

\* the fencing tokens of this study
TokenSamples == 1..2

\* the leases the store can hold: none, or a token with its owner (None once it has run out)
Leases ==
    {NoLease} \cup {[owner |-> o, ttl |-> IF o = None THEN 0 ELSE LeaseTTL, token |-> t] :
                       o \in {None} \cup Node, t \in TokenSamples}

FastInit ==
    /\ HrwIdle /\ StepIdle /\ StateIdle /\ PubIdle /\ EnrichIdle /\ CycleIdle
    /\ HealthIdle /\ ConfigIdle /\ ProfileIdle /\ OrderBookIdle /\ ExtIdle
    /\ configured_symbols = Symbol
    /\ member_ttl = [n \in Node |-> 0]
    /\ report = [s \in Symbol |-> NoReport]
    /\ acq_age = [n \in Node |-> [s \in Symbol |-> 0]]
    /\ up = [n \in Node |-> n = Strategist]
    /\ lease_conflicts = [n \in Node |-> 0]
    /\ pc = [n \in Node |-> Idle]
    /\ granted = [n \in Node |-> [s \in Symbol |-> 0]]
    /\ issued = [s \in Symbol |-> NoToken]
    /\ last_acquired = [n \in Node |-> [s \in Symbol |-> NoToken]]
    /\ expired = [n \in Node |-> {}]
    /\ \E owned \in SUBSET Symbol, tokens \in [Symbol -> {NoToken} \cup TokenSamples] :
          /\ \A s \in Symbol : tokens[s] # NoToken <=> s \in owned
          /\ owned_symbols = [n \in Node |-> IF n = Strategist THEN owned ELSE {}]
          /\ ctrl_owned = owned_symbols
          /\ subscribed = owned_symbols
          /\ writer_tokens = [n \in Node |-> [s \in Symbol |->
                                 IF n = Strategist THEN tokens[s] ELSE NoToken]]
          /\ symbol_tokens = writer_tokens
          /\ lease \in [Symbol -> Leases]
          /\ \A s \in owned : lease[s].owner = Strategist => lease[s].token = tokens[s]
          /\ symbol_states \in [Symbol -> BookStates \cup {NoState}]
          /\ \A s \in Symbol : IF s \in owned THEN symbol_states[s].present
                               ELSE symbol_states[s] \in {NoState, NewState}
    /\ tasks = {"heartbeat", "rebalance", "lease_renewal"}
    /\ timers = {"fast_cycle", "slow_cycle"}
    /\ NoCycleOutput
    /\ stop = NotStopped
    /\ written_after_stop = {}
    /\ faults \in [info : SUBSET Symbol, publish : SUBSET Symbol]

\* on_fast_cycle runs under the faults of the state
FastNext == FastCycle(Strategist, faults.info, faults.publish)

FastSpec == FastInit /\ [][FastNext]_vars

\* the state has no best bid or no best ask, or one side of its top of book is empty
lacks_book(state) ==
    state.best_bid = 0 \/ state.best_ask = 0 \/ state.top_bids = 0 \/ state.top_asks = 0

\* the fencing check of on_fast_cycle lets the symbol pass
passes_fence(s, info_ok) ==
    fencing_check(writer_tokens[Strategist][s], get_lease_info(lease[s], info_ok)) = "pass"

\* C23: for an owned symbol s whose state lacks best_bid or best_ask (or has an empty side of
\* the top of book), the fast report is null and the fast cycle writes nothing to report:{s},
\* logs no error for s, counts no publish for s, and still publishes every other owned symbol
\* that passes the fencing check, has a full book and a store that takes the write.
C23_NullReportSkipped ==
    [][LET info_failed == faults.info
           publish_failed == faults.publish
       IN FastCycle(Strategist, info_failed, publish_failed) =>
              \A s \in owned_symbols[Strategist] :
                  lacks_book(symbol_states[s]) =>
                      /\ fast_report(symbol_states[s], Strategist,
                                     writer_tokens[Strategist][s]) = NoReport
                      /\ report'[s] = report[s]
                      /\ s \notin written'
                      /\ report_publish_rate'[s] = 0
                      /\ fast_log'[s] = IF passes_fence(s, s \notin info_failed)
                                        THEN "report_skipped_insufficient_data"
                                        ELSE "lease_conflict"
                      /\ \A t \in owned_symbols[Strategist] \ {s} :
                            /\ passes_fence(t, t \notin info_failed)
                            /\ ~lacks_book(symbol_states[t])
                            /\ t \notin publish_failed
                            => /\ t \in written'
                               /\ report'[t] = [token |-> writer_tokens[Strategist][t],
                                                node |-> Strategist]]_vars

C23_Witness ==
    \E s, t \in Symbol :
        /\ s # t
        /\ {s, t} \subseteq owned_symbols[Strategist]
        /\ symbol_states[s].best_bid # 0 /\ symbol_states[s].best_ask # 0
        /\ symbol_states[s].top_bids = 0
        /\ fast_log[s] = "report_skipped_insufficient_data"
        /\ report[s] = NoReport
        /\ fast_log[t] = "report_published"
        /\ report[t].node = Strategist

\* C27: when on_fast_cycle reads from the store a token for an owned symbol s that differs
\* from writer_tokens[s], it writes nothing to report:{s} in that cycle, counts one lease
\* conflict for each such symbol, leaves owned_symbols and writer_tokens as they were, and
\* still publishes the other owned symbols.
C27_LeaseConflictSkipped ==
    [][LET info_failed == faults.info
           publish_failed == faults.publish
       IN FastCycle(Strategist, info_failed, publish_failed) =>
              LET conflicts == {s \in owned_symbols[Strategist] :
                                   /\ s \notin info_failed
                                   /\ lease[s] # NoLease
                                   /\ lease[s].token # writer_tokens[Strategist][s]}
              IN  /\ \A s \in conflicts : report'[s] = report[s] /\ s \notin written'
                  /\ lease_conflicts'[Strategist] = Cardinality(conflicts)
                  /\ owned_symbols' = owned_symbols
                  /\ writer_tokens' = writer_tokens
                  /\ \A t \in owned_symbols[Strategist] \ conflicts :
                        ~lacks_book(symbol_states[t]) /\ t \notin publish_failed
                        => t \in written']_vars

C27_Witness ==
    \E s, t \in Symbol :
        /\ s # t
        /\ {s, t} \subseteq owned_symbols[Strategist]
        /\ lease[s].token # writer_tokens[Strategist][s]
        /\ fast_log[s] = "lease_conflict"
        /\ lease_conflicts[Strategist] = 1
        /\ report[s] = NoReport
        /\ fast_log[t] = "report_published"

\* C24: once on_stop has run with the lease store reachable, the node owns the lease of none of
\* the symbols it owned, its owned_symbols, writer_tokens and symbol_states are empty, the
\* heartbeat, rebalance and renewal tasks are cancelled, and no report:{s} is written afterwards.
C24_StopReleasesAll ==
    stop.done /\ stop.reachable =>
        /\ \A s \in stop.owned : lease[s].owner # Strategist
        /\ owned_symbols[Strategist] = {}
        /\ writer_tokens[Strategist] = [s \in Symbol |-> NoToken]
        /\ symbol_states = [s \in Symbol |-> NoState]
        /\ tasks = {}
        /\ written_after_stop = {}

C24_Witness ==
    /\ stop.done /\ stop.reachable
    /\ stop.owned = {"BTCUSDT"}
    /\ report["BTCUSDT"].node = Strategist
    /\ lease["BTCUSDT"] = NoLease
    /\ "slow_cycle" \in timers

\* C28: on_trade_tick and on_order_book_deltas for a symbol that is not in owned_symbols leave
\* every SymbolState as it was, also when the symbol was owned earlier and its state is kept.
C28_UnownedEventsIgnored ==
    [][\A s \in Symbol :
          s \notin owned_symbols[Strategist] =>
              /\ \A book \in Books :
                    OrderBookDeltas(Strategist, s, book) => symbol_states' = symbol_states
              /\ \A trade \in Trade :
                    TradeTick(Strategist, s, trade) => symbol_states' = symbol_states]_vars

\* C29: dropping s removes it from owned_symbols and deletes writer_tokens[s] and leaves every
\* SymbolState as it was; acquiring s when it has a state keeps that state as it is and
\* installs the token of the new acquisition.
C29_StateKeptAcrossDrop ==
    [][\A s \in Symbol :
          /\ \A via \in {"rebalance", "lease_renewal"}, unsubscribed, ok \in BOOLEAN :
                SymbolDropped(Strategist, s, via, unsubscribed, ok) =>
                    /\ s \notin owned_symbols'[Strategist]
                    /\ writer_tokens'[Strategist][s] = NoToken
                    /\ symbol_states' = symbol_states
          /\ \A ok \in BOOLEAN :
                /\ SymbolAcquired(Strategist, s, ok)
                /\ symbol_states[s].present
                /\ s \in owned_symbols'[Strategist]
                => /\ symbol_states' = symbol_states
                   /\ lease'[s].owner = Strategist
                   /\ writer_tokens'[Strategist][s] = lease'[s].token]_vars

C29_Witness ==
    /\ "BTCUSDT" \in owned_symbols[Strategist]
    /\ writer_tokens[Strategist]["BTCUSDT"] = 2
    /\ lease["BTCUSDT"].token = 2
    /\ symbol_states["BTCUSDT"].last_trade # None
    /\ symbol_states["BTCUSDT"].best_bid # 0

\* ======================================================================
\* Start-up: ProducerConfig.validate and main
\* ======================================================================

\* str.endswith("USDT") over the symbol names that occur
ends_with_USDT == [BTCUSDT |-> TRUE, ETHUSDT |-> TRUE, BTCUSD |-> FALSE]

SymbolLists == {<<>>, <<"BTCUSDT">>, <<"BTCUSDT", "ETHUSDT">>, <<"BTCUSDT", "BTCUSD">>}

LogLevels == {"debug", "info", "warn", "error"}

ReportPeriodSamples == {99, 100, 250, 1000, 1001}

SlowPeriodSamples == {999, 1000, 2000}

LeaseTtlSamples == {199, 200, 499, 500, 1999, 2000}

\* nt_hrw_sticky_pct in thousandths: -0.001, 0, 0.02, 0.1, 0.101
StickySamples == {-1, 0, 20, 100, 101}

NodeIds == {"", "nt-1"}

Configs ==
    [symbols : SymbolLists, log_level : {"info", "trace"}, nt_enable_kv_reports : BOOLEAN,
     nt_report_period_ms : ReportPeriodSamples, nt_slow_period_ms : SlowPeriodSamples,
     nt_lease_ttl_ms : LeaseTtlSamples, nt_node_id : NodeIds, nt_hrw_sticky_pct : StickySamples]

\* from_env: the settings are read from the environment and a node id is generated when
\* NT_NODE_ID is empty
from_env(env) ==
    [env EXCEPT !.nt_node_id = IF env.nt_node_id = "" THEN "nt-host-1" ELSE env.nt_node_id]

\* validate without the lease rule
validate_without_lease_rule(self) ==
    IF self.symbols = <<>> THEN "symbols"
    ELSE IF \E i \in 1..Len(self.symbols) : ~ends_with_USDT[self.symbols[i]] THEN "symbol_suffix"
    ELSE IF self.log_level \notin LogLevels THEN "log_level"
    ELSE IF ~self.nt_enable_kv_reports THEN "ok"
    ELSE IF self.nt_report_period_ms < 100 \/ self.nt_report_period_ms > 1000 THEN "report_period"
    ELSE IF self.nt_slow_period_ms < 1000 THEN "slow_period"
    ELSE IF ~(0 <= self.nt_hrw_sticky_pct /\ self.nt_hrw_sticky_pct <= 100) THEN "hrw_sticky"
    ELSE IF self.nt_node_id = "" THEN "node_id"
    ELSE "ok"

\* validate: the ValueError raised, or "ok"
validate(self) ==
    IF self.symbols = <<>> THEN "symbols"
    ELSE IF \E i \in 1..Len(self.symbols) : ~ends_with_USDT[self.symbols[i]] THEN "symbol_suffix"
    ELSE IF self.log_level \notin LogLevels THEN "log_level"
    ELSE IF ~self.nt_enable_kv_reports THEN "ok"
    ELSE IF self.nt_report_period_ms < 100 \/ self.nt_report_period_ms > 1000 THEN "report_period"
    ELSE IF self.nt_slow_period_ms < 1000 THEN "slow_period"
    ELSE IF self.nt_lease_ttl_ms < 2 * self.nt_report_period_ms THEN "lease_ttl"
    ELSE IF ~(0 <= self.nt_hrw_sticky_pct /\ self.nt_hrw_sticky_pct <= 100) THEN "hrw_sticky"
    ELSE IF self.nt_node_id = "" THEN "node_id"
    ELSE "ok"

ConfigInit ==
    /\ CoordStart({}, {})
    /\ HrwIdle /\ StepIdle /\ StateIdle /\ PubIdle /\ EnrichIdle /\ CycleIdle
    /\ HealthIdle /\ StrategyIdle /\ ProfileIdle /\ OrderBookIdle /\ ExtIdle
    /\ config \in Configs
    /\ startup = NotStarted

configFrame == <<coordVars, hrwVars, stepVars, stateVars, pubVars, enrichVars, cycleVars,
                 healthVars, strategyVars, profileVars, orderBookVars, extVars>>

\* validate() called on a configuration constructed directly; the error reaches the caller
Validate ==
    /\ startup = NotStarted
    /\ startup' = [entry |-> "validate", started |-> FALSE, exit_code |-> 0,
                    error |-> validate(config)]
    /\ UNCHANGED <<configFrame, config>>

\* main: load the configuration, validate it, and exit with status 1 when it is invalid
Main ==
    /\ startup = NotStarted
    /\ LET loaded == from_env(config)
           raised == validate(loaded)
       IN  /\ config' = loaded
           /\ startup' = IF raised = "ok"
                         THEN [entry |-> "main", started |-> TRUE, exit_code |-> 0,
                               error |-> "ok"]
                         ELSE [entry |-> "main", started |-> FALSE, exit_code |-> 1,
                               error |-> raised]
    /\ UNCHANGED configFrame

ConfigNext == Validate \/ Main

ConfigSpec == ConfigInit /\ [][ConfigNext]_vars

\* the five analytics rules the configuration has to satisfy
analytics_rules_hold(c) ==
    /\ c.nt_report_period_ms >= 100 /\ c.nt_report_period_ms <= 1000
    /\ c.nt_slow_period_ms >= 1000
    /\ c.nt_lease_ttl_ms >= 2 * c.nt_report_period_ms
    /\ c.nt_hrw_sticky_pct >= 0 /\ c.nt_hrw_sticky_pct <= 100
    /\ c.nt_node_id # ""

\* C25: with analytics enabled, a configuration is accepted only if the report period is in
\* [100, 1000], the slow period is at least 1000, the lease TTL is at least twice the
\* report period, the sticky percentage is in [0, 0.1] and the node id is non-empty; a
\* configuration violating one of these gets an error, and main exits with status 1
\* without starting.
C25_ConfigValidation ==
    (startup # NotStarted /\ config.nt_enable_kv_reports) =>
        /\ startup.error = "ok" => analytics_rules_hold(config)
        /\ ~analytics_rules_hold(config) =>
              /\ startup.error \notin {"ok", "-"}
              /\ ~startup.started
        /\ startup.entry = "main" =>
              /\ startup.started <=> startup.error = "ok"
              /\ startup.exit_code = (IF startup.started THEN 0 ELSE 1)

\* main refused to start because the lease TTL is shorter than twice the report period,
\* everything else being valid
C25_Witness ==
    /\ startup.entry = "main"
    /\ startup.exit_code = 1
    /\ startup.error = "lease_ttl"
    /\ config.nt_enable_kv_reports
    /\ config.nt_lease_ttl_ms = 499
    /\ config.nt_report_period_ms = 250
    /\ config.nt_hrw_sticky_pct = 100

\* ======================================================================
\* calculate_volume_profile: the value-area expansion
\* ======================================================================

MaxBins == 4

MaxVolume == 2

\* the histograms np.histogram can return: one volume per bin, bins indexed from 0
Histograms == UNION {[0..(n - 1) -> 0..MaxVolume] : n \in 1..MaxBins}

\* np.argmax: the first index holding the largest value
argmax(h) ==
    CHOOSE i \in DOMAIN h :
        /\ \A j \in DOMAIN h : h[j] <= h[i]
        /\ \A j \in DOMAIN h : j < i => h[j] < h[i]

RECURSIVE volume_between(_, _, _)
\* the volume of the bins lo..hi
volume_between(h, lo, hi) ==
    IF lo > hi THEN 0 ELSE h[lo] + volume_between(h, lo + 1, hi)

\* hist.sum()
total_volume(h) == volume_between(h, 0, Cardinality(DOMAIN h) - 1)

\* accumulated_volume < target_volume, with target_volume = total_volume * 0.70
below_target(h, acc) == 10 * acc < 7 * total_volume(h)

\* edges[i] in half bins from the first edge: the edges are evenly spaced and increasing
edges(i) == 2 * i

\* the body of the loop with the tie going to the right
expand_direction_right_on_tie(h, l, r) ==
    LET len == Cardinality(DOMAIN h)
        left_volume == IF l > 0 THEN h[l - 1] ELSE 0
        right_volume == IF r < len - 1 THEN h[r + 1] ELSE 0
    IN  IF left_volume > right_volume /\ l > 0 THEN "left"
        ELSE IF r < len - 1 THEN "right"
        ELSE "break"

\* the body of the loop: which bin is taken next
expand_direction(h, l, r) ==
    LET len == Cardinality(DOMAIN h)
        left_volume == IF l > 0 THEN h[l - 1] ELSE 0
        right_volume == IF r < len - 1 THEN h[r + 1] ELSE 0
    IN  IF left_volume >= right_volume /\ l > 0 THEN "left"
        ELSE IF r < len - 1 THEN "right"
        ELSE "break"

\* the state on entering the loop: both indices on the point of control
ProfileInit ==
    /\ CoordStart({}, {})
    /\ HrwIdle /\ StepIdle /\ StateIdle /\ PubIdle /\ EnrichIdle /\ CycleIdle
    /\ HealthIdle /\ StrategyIdle /\ ConfigIdle /\ OrderBookIdle /\ ExtIdle
    /\ hist \in Histograms
    /\ poc_idx = argmax(hist)
    /\ left_idx = poc_idx
    /\ right_idx = poc_idx
    /\ accumulated_volume = hist[poc_idx]
    /\ profile = NoProfile

profileFrame == <<coordVars, hrwVars, stepVars, stateVars, pubVars, enrichVars, cycleVars,
                  healthVars, strategyVars, configVars, orderBookVars, extVars>>

\* one iteration of the loop that takes a bin
Expand ==
    /\ ~profile.done
    /\ below_target(hist, accumulated_volume)
    /\ LET direction == expand_direction(hist, left_idx, right_idx)
       IN  /\ direction # "break"
           /\ left_idx' = IF direction = "left" THEN left_idx - 1 ELSE left_idx
           /\ right_idx' = IF direction = "right" THEN right_idx + 1 ELSE right_idx
           /\ accumulated_volume' =
                 accumulated_volume +
                 (IF direction = "left" THEN hist[left_idx - 1] ELSE hist[right_idx + 1])
    /\ UNCHANGED <<profileFrame, hist, poc_idx, profile>>

\* the loop ends (target reached, or break) and the profile is returned unless the
\* check of VAL <= POC <= VAH fails
Return ==
    /\ ~profile.done
    /\ \/ ~below_target(hist, accumulated_volume)
       \/ expand_direction(hist, left_idx, right_idx) = "break"
    /\ LET poc_price == (edges(poc_idx) + edges(poc_idx + 1)) \div 2
           val == edges(left_idx)
           vah == edges(right_idx + 1)
       IN  profile' = IF val <= poc_price /\ poc_price <= vah
                      THEN [done |-> TRUE, returned |-> TRUE, POC |-> poc_price,
                            VAH |-> vah, VAL |-> val]
                      ELSE [done |-> TRUE, returned |-> FALSE, POC |-> 0, VAH |-> 0, VAL |-> 0]
    /\ UNCHANGED <<profileFrame, hist, poc_idx, left_idx, right_idx, accumulated_volume>>

ProfileNext == Expand \/ Return

\* the function runs to its end: a step that can be taken is taken
ProfileSpec == ProfileInit /\ [][ProfileNext]_vars /\ WF_vars(ProfileNext)

\* the window contains the point of control and the accumulated volume is that of the
\* window; once the loop has ended either the target is reached or the window covers
\* every bin, and the profile returned has VAL <= POC <= VAH
value_area_window ==
    /\ 0 <= left_idx /\ left_idx <= poc_idx
    /\ poc_idx <= right_idx /\ right_idx <= Cardinality(DOMAIN hist) - 1
    /\ accumulated_volume = volume_between(hist, left_idx, right_idx)
    /\ profile.done =>
          /\ \/ ~below_target(hist, accumulated_volume)
             \/ left_idx = 0 /\ right_idx = Cardinality(DOMAIN hist) - 1
          /\ profile.returned
          /\ profile.VAL = edges(left_idx) /\ profile.VAH = edges(right_idx + 1)
          /\ profile.VAL <= profile.POC /\ profile.POC <= profile.VAH

\* a step that moves the window starts below the target and takes exactly one bin next
\* to the window: the left one when it exists and is at least as heavy as the right one
\* (or there is no right one), otherwise the right one
value_area_step ==
    (left_idx' # left_idx \/ right_idx' # right_idx) =>
        /\ below_target(hist, accumulated_volume)
        /\ \/ /\ left_idx' = left_idx - 1 /\ right_idx' = right_idx
              /\ left_idx > 0
              /\ \/ right_idx = Cardinality(DOMAIN hist) - 1
                 \/ hist[left_idx - 1] >= hist[right_idx + 1]
           \/ /\ right_idx' = right_idx + 1 /\ left_idx' = left_idx
              /\ right_idx < Cardinality(DOMAIN hist) - 1
              /\ \/ left_idx = 0
                 \/ hist[right_idx + 1] > hist[left_idx - 1]

\* C26: for every histogram with at least one bin the value-area expansion terminates,
\* keeps left_idx <= poc_idx <= right_idx, adds one neighbouring bin per step (the
\* heavier one, the left one on a tie), and stops as soon as the accumulated volume
\* reaches 70% of the total or both ends are reached; a returned profile has
\* VAL <= POC <= VAH.
C26_ValueAreaExpansion ==
    /\ []value_area_window
    /\ [][value_area_step]_vars
    /\ <>(profile.done)

\* the window grew on both sides of the point of control and stopped on reaching the
\* target, with a bin left over on the right
C26_Witness ==
    /\ profile.returned
    /\ left_idx < poc_idx
    /\ poc_idx < right_idx
    /\ right_idx < Cardinality(DOMAIN hist) - 1
    /\ ~below_target(hist, accumulated_volume)

\* ======================================================================
\* OrderBookL2: update_bid, update_ask and _recompute_top
\* ======================================================================

MaxCalls == 1

MaxQty == 2

\* one price more than the top lists hold
ObPrices == 1..(max_levels + 1)

ObQtys == 0..MaxQty

\* the prices the calls are made with: the two lowest and the two highest
CallPrices == {1, 2, max_levels, max_levels + 1}

\* dict.pop(price, None)
dict_pop(d, price) == [p \in DOMAIN d \ {price} |-> d[p]]

\* d[price] = qty
dict_set(d, price, qty) == [p \in DOMAIN d \cup {price} |-> IF p = price THEN qty ELSE d[p]]

RECURSIVE sorted_items(_, _)
\* sorted(d.items(), reverse=reverse): the (price, qty) pairs in ascending order of
\* price, or in descending order
sorted_items(d, reverse) ==
    IF DOMAIN d = {} THEN <<>>
    ELSE LET first == CHOOSE p \in DOMAIN d :
                          \A q \in DOMAIN d : IF reverse THEN q <= p ELSE p <= q
         IN  <<<<first, d[first]>>>> \o sorted_items(dict_pop(d, first), reverse)

\* seq[:n]
slice_to(seq, n) == SubSeq(seq, 1, min(Len(seq), n))

\* _recompute_top without the slices
recompute_top_untruncated(items, reverse, n) == sorted_items(items, reverse)

\* _recompute_top, for one side
recompute_top(items, reverse, n) == slice_to(sorted_items(items, reverse), n)

\* the books the calls start from: no level, one level, a level at every price, and a
\* level at every price but the highest or the lowest
StartBooks ==
    {<<>>, [p \in {2} |-> 1], [p \in ObPrices |-> 1],
     [p \in ObPrices \ {max_levels + 1} |-> 1], [p \in ObPrices \ {1} |-> 1]}

OrderBookInit ==
    /\ CoordStart({}, {})
    /\ HrwIdle /\ StepIdle /\ StateIdle /\ PubIdle /\ EnrichIdle /\ CycleIdle
    /\ HealthIdle /\ StrategyIdle /\ ConfigIdle /\ ProfileIdle /\ ExtIdle
    /\ ob_max_levels = max_levels
    /\ ob_bids \in StartBooks
    /\ ob_asks \in StartBooks
    /\ ob_top_bids = recompute_top(ob_bids, TRUE, ob_max_levels)
    /\ ob_top_asks = recompute_top(ob_asks, FALSE, ob_max_levels)
    /\ ob_calls = <<>>

orderBookFrame == <<coordVars, hrwVars, stepVars, stateVars, pubVars, enrichVars, cycleVars,
                    healthVars, strategyVars, configVars, profileVars, extVars, ob_max_levels>>

update_bid(price, qty) ==
    /\ Len(ob_calls) < MaxCalls
    /\ ob_bids' = IF qty = 0 THEN dict_pop(ob_bids, price) ELSE dict_set(ob_bids, price, qty)
    /\ ob_top_bids' = recompute_top(ob_bids', TRUE, ob_max_levels)
    /\ ob_top_asks' = recompute_top(ob_asks, FALSE, ob_max_levels)
    /\ ob_calls' = Append(ob_calls, [price |-> price, qty |-> qty, side |-> "bid"])
    /\ UNCHANGED <<orderBookFrame, ob_asks>>

update_ask(price, qty) ==
    /\ Len(ob_calls) < MaxCalls
    /\ ob_asks' = IF qty = 0 THEN dict_pop(ob_asks, price) ELSE dict_set(ob_asks, price, qty)
    /\ ob_top_bids' = recompute_top(ob_bids, TRUE, ob_max_levels)
    /\ ob_top_asks' = recompute_top(ob_asks', FALSE, ob_max_levels)
    /\ ob_calls' = Append(ob_calls, [price |-> price, qty |-> qty, side |-> "ask"])
    /\ UNCHANGED <<orderBookFrame, ob_bids>>

OrderBookNext ==
    \E price \in CallPrices, qty \in ObQtys :
        \/ update_bid(price, qty)
        \/ update_ask(price, qty)

OrderBookSpec == OrderBookInit /\ [][OrderBookNext]_vars

\* top is the map sorted and truncated, said without the sort: the entries are levels
\* of the map, in strictly descending (or ascending) order of price; there are
\* max_levels of them, or as many as the map has levels; and every level left out is
\* beyond the last entry
is_top_of(top, items, reverse, n) ==
    /\ Len(top) = min(n, Cardinality(DOMAIN items))
    /\ \A i \in 1..Len(top) : top[i][1] \in DOMAIN items /\ top[i][2] = items[top[i][1]]
    /\ \A i \in 1..(Len(top) - 1) :
          IF reverse THEN top[i][1] > top[i + 1][1] ELSE top[i][1] < top[i + 1][1]
    /\ \A p \in DOMAIN items :
          \/ \E i \in 1..Len(top) : top[i][1] = p
          \/ \A i \in 1..Len(top) : IF reverse THEN p < top[i][1] ELSE top[i][1] < p

\* after a call both top lists are the tops of their maps at 20 levels
tops_follow_maps ==
    ob_calls # <<>> =>
        /\ ob_max_levels = 20
        /\ is_top_of(ob_top_bids, ob_bids, TRUE, 20)
        /\ is_top_of(ob_top_asks, ob_asks, FALSE, 20)

\* the map after a call with (price, qty): no level at price for qty 0, the level
\* (price, qty) for a positive qty, every other level as before
level_updated(before, after, price, qty) ==
    /\ qty = 0 => price \notin DOMAIN after
    /\ qty > 0 => price \in DOMAIN after /\ after[price] = qty
    /\ DOMAIN after \ {price} = DOMAIN before \ {price}
    /\ \A p \in DOMAIN before \ {price} : after[p] = before[p]

\* what a call does to the two maps
maps_updated ==
    ob_calls' # ob_calls =>
        LET call == ob_calls'[Len(ob_calls')]
        IN  /\ Len(ob_calls') = Len(ob_calls) + 1
            /\ call.side = "bid" =>
                  level_updated(ob_bids, ob_bids', call.price, call.qty) /\ ob_asks' = ob_asks
            /\ call.side = "ask" =>
                  level_updated(ob_asks, ob_asks', call.price, call.qty) /\ ob_bids' = ob_bids

\* C30: after every update_bid or update_ask, a qty of 0 has removed the level at that
\* price and a positive qty has inserted or replaced it, the other side's map is
\* unchanged, top_bids is the bid map sorted by descending price and truncated to 20
\* levels, and top_asks is the ask map sorted by ascending price and truncated to 20.
C30_BookUpdate ==
    /\ []tops_follow_maps
    /\ [][maps_updated]_vars

\* update_bid added a twenty-first bid above the others: it heads top_bids, which holds
\* twenty levels, and the lowest bid is left out
C30_Witness ==
    /\ ob_calls = <<[price |-> max_levels + 1, qty |-> 2, side |-> "bid"]>>
    /\ Cardinality(DOMAIN ob_bids) = max_levels + 1
    /\ Len(ob_top_bids) = max_levels
    /\ ob_top_bids[1] = <<max_levels + 1, 2>>
    /\ \A i \in 1..Len(ob_top_bids) : ob_top_bids[i][1] # 1

----------------------------------------------------------------------------
(* Rebalance without live nodes, denied acquisitions, renewal errors, and the
   two owned sets of a node *)

\* the value rebalance() returns when it found nothing to do
EmptyResult == [acquire |-> {}, release |-> {}, pending |-> TRUE]

\* C32: when discovery yields no live node (no record within TTL, or the scan of the
\* store failed), a rebalance tick returns empty acquire and release lists and leaves
\* the lease keys, the controller's owned_symbols, its tokens and its acquisition
\* times as they were; the strategy's handlers of the empty lists change nothing.
C32_NoLiveNodeNoChange ==
    [][\A n \in Node :
          /\ (\E ok \in BOOLEAN, failed \in SUBSET configured_symbols :
                  Len(discover(ok)) = 0 /\ Rebalance(n, ok, failed))
             => (/\ rebalance_result'[n] = EmptyResult
                 /\ UNCHANGED <<lease, ctrl_owned, symbol_tokens, acq_age, issued>>)
          /\ (/\ rebalance_result[n] = EmptyResult
              /\ \E failed \in SUBSET configured_symbols : RebalanceHandlers(n, failed))
             => UNCHANGED <<lease, ctrlVars, stratVars>>]_vars

\* C32 case: rebalance() has returned empty lists to a node that holds a symbol past
\* its hold time while no membership record is alive
C32_Witness ==
    \E n \in Node, s \in Symbol :
        /\ rebalance_result[n] = EmptyResult
        /\ s \in ctrl_owned[n]
        /\ acq_age[n][s] = MinHold
        /\ \A m \in Node : member_ttl[m] = 0

\* C34: a store I/O error raised by the renewal of a lease the node holds is not
\* taken as loss of ownership: after the renewal iteration the symbol is still in the
\* strategy's owned_symbols with its writer token.
C34_RenewErrorKeepsOwnership ==
    [][\A n \in Node, s \in Symbol :
          (/\ s \in owned_symbols[n]
           /\ lease[s].owner = n
           /\ \E failRenew, failRelease \in SUBSET configured_symbols :
                  s \in failRenew /\ LeaseRenewalLoop(n, failRenew, failRelease))
          => (s \in owned_symbols'[n] /\ writer_tokens'[n][s] = writer_tokens[n][s])]_vars

\* C38: a symbol that rebalance() tried to acquire and was denied (or whose acquire call
\* failed) is in the returned acquire list, but enters neither the controller's nor the
\* strategy's owned_symbols and gets no token and no subscription in that tick; being
\* outside the controller's owned_symbols, it is in the acquire list of the next
\* rebalance tick that assigns it to the node.
C38_DeniedAcquireSkipped ==
    [][\A n \in Node, s \in Symbol :
          /\ (\E ok \in BOOLEAN, failed \in SUBSET configured_symbols :
                  /\ s \in to_acquire(n, discover(ok))
                  /\ acquire_symbol(lease[s], n, s \notin failed).token = NoToken
                  /\ Rebalance(n, ok, failed))
             => (/\ s \in rebalance_result'[n].acquire
                 /\ s \notin ctrl_owned'[n]
                 /\ symbol_tokens'[n][s] = NoToken)
          /\ (/\ s \in rebalance_result[n].acquire
              /\ s \notin ctrl_owned[n]
              /\ \E failed \in SUBSET configured_symbols : RebalanceHandlers(n, failed))
             => (/\ s \notin owned_symbols'[n]
                 /\ writer_tokens'[n][s] = NoToken
                 /\ s \notin subscribed'[n])
          /\ (\E ok \in BOOLEAN, failed \in SUBSET configured_symbols :
                  /\ s \in configured_symbols
                  /\ s \notin ctrl_owned[n]
                  /\ desired_assignment(n, s, discover(ok)) = n
                  /\ Rebalance(n, ok, failed))
             => s \in rebalance_result'[n].acquire]_vars

\* C38 case: rebalance() has returned an acquire list with a symbol whose lease the
\* other node holds, so the acquisition was denied
C38_Witness ==
    \E n \in Node, s \in Symbol :
        /\ rebalance_result[n].pending
        /\ s \in rebalance_result[n].acquire
        /\ s \notin ctrl_owned[n]
        /\ lease[s].owner \notin {None, n}

\* C39: after every completed rebalance iteration and every completed renewal
\* iteration the controller's owned_symbols equals the strategy's owned_symbols, and
\* symbol_tokens and writer_tokens hold the same token for every owned symbol.
C39_OwnedSetsAgree ==
    \A n \in Node :
        /\ ctrl_owned[n] = owned_symbols[n]
        /\ \A s \in owned_symbols[n] : symbol_tokens[n][s] = writer_tokens[n][s]

(***************************************************************************)
(* The LeaseManager calls of two nodes on two symbols, studied on their    *)
(* own: any node may call acquire, renew or release for any symbol at any  *)
(* time, any call may fail to reach the store, and leases run out.         *)
(***************************************************************************)
\* what this study never changes
leaseFrame == <<hrwVars, stepVars, stateVars, pubVars, enrichVars, cycleVars, healthVars,
                strategyVars, configVars, profileVars, orderBookVars, membershipVars, loopVars,
                slowMetricsVars, cfgVars, member_ttl, report, ctrlVars, up, stratVars,
                lease_conflicts, pc, histVars>>

LeaseInit == InitWith(Symbol, Node)

\* LeaseManager.acquire(s) called by node n
Acquire(n, s, ok) ==
    /\ lease[s].token < MaxToken
    /\ LET r == acquire(lease[s], n, ok)
       IN  /\ lease' = [lease EXCEPT ![s] = r.lease]
           /\ lease_call' = [token |-> r.token, node |-> n, op |-> "acquire", sym |-> s,
                             answer |-> r.token # NoToken]
    /\ UNCHANGED leaseFrame

\* LeaseManager.renew(s) called by node n
Renew(n, s, ok) ==
    /\ LET r == renew(lease[s], n, ok)
       IN  /\ lease' = [lease EXCEPT ![s] = r.lease]
           /\ lease_call' = [token |-> NoToken, node |-> n, op |-> "renew", sym |-> s,
                             answer |-> r.renewed]
    /\ UNCHANGED leaseFrame

\* LeaseManager.release(s) called by node n
Release(n, s, ok) ==
    /\ LET r == release(lease[s], n, ok)
       IN  /\ lease' = [lease EXCEPT ![s] = r.lease]
           /\ lease_call' = [token |-> NoToken, node |-> n, op |-> "release", sym |-> s,
                             answer |-> r.released]
    /\ UNCHANGED leaseFrame

\* the TTL of report:writer:{s} runs out: the owner key goes, the token key stays
LeaseExpiry(s) ==
    /\ lease[s].ttl > 0
    /\ lease' = [lease EXCEPT ![s] = [@ EXCEPT !.owner = None, !.ttl = 0]]
    /\ UNCHANGED <<leaseFrame, lease_call>>

LeaseNext ==
    \/ \E n \in Node, s \in Symbol, ok \in BOOLEAN : Acquire(n, s, ok)
    \/ \E n \in Node, s \in Symbol, ok \in BOOLEAN : Renew(n, s, ok)
    \/ \E n \in Node, s \in Symbol, ok \in BOOLEAN : Release(n, s, ok)
    \/ \E s \in Symbol : LeaseExpiry(s)

LeaseSpec == LeaseInit /\ [][LeaseNext]_vars

\* C31: renew(s) and release(s) called by a node that is not the owner on record
\* return false and leave owner, TTL and token counter of every lease as they were;
\* acquire(s) called while another node holds an unexpired lease returns no token and
\* leaves them as they were.
C31_DeniedLeaseCallsChangeNothing ==
    [][\A n \in Node, s \in Symbol :
          /\ (lease[s].owner # n /\ \E ok \in BOOLEAN : Renew(n, s, ok))
             => (~lease_call'.answer /\ lease' = lease)
          /\ (lease[s].owner # n /\ \E ok \in BOOLEAN : Release(n, s, ok))
             => (~lease_call'.answer /\ lease' = lease)
          /\ (/\ lease[s].owner \notin {None, n}
              /\ lease[s].ttl > 0
              /\ \E ok \in BOOLEAN : Acquire(n, s, ok))
             => (lease_call'.token = NoToken /\ lease' = lease)]_vars

\* C31 case: the latest call was a renew by a node while the other node held the
\* lease; it answered false
C31_Witness ==
    /\ lease_call.op = "renew"
    /\ ~lease_call.answer
    /\ lease[lease_call.sym].owner \notin {None, lease_call.node}
    /\ lease[lease_call.sym].ttl > 0

(***************************************************************************)
(* NodeMembership.discover over the keys nt:node:{n} of two nodes.  A key  *)
(* holds what heartbeat() wrote or what any other writer of the store put  *)
(* there; discover() is one call, the store not changing under it.         *)
(***************************************************************************)
\* the values of a key by what json.loads, the subscript and fromisoformat make of them:
\*   ok                a heartbeat record
\*   not_json          text that is no JSON (JSONDecodeError)
\*   no_last_heartbeat a JSON object without the key (KeyError)
\*   bad_timestamp     last_heartbeat is a string that is no ISO timestamp (ValueError)
\*   not_an_object     JSON that is a list, a number, a string or null (TypeError on the subscript)
\*   aware_timestamp   an ISO timestamp with a UTC offset (TypeError on utcnow() - last_hb)
RecordKinds == {"ok", "not_json", "no_last_heartbeat", "bad_timestamp", "not_an_object",
                "aware_timestamp"}

\* what this study never changes
membershipFrame == <<hrwVars, stepVars, stateVars, pubVars, enrichVars, cycleVars, healthVars,
                     strategyVars, configVars, profileVars, orderBookVars, lease_call, loopVars,
                     slowMetricsVars, cfgVars, lease, report, ctrlVars, up, stratVars,
                     lease_conflicts, pc, histVars>>

MembershipInit == InitWith(Symbol, Node)

\* discover(), lines 113-136: what the loop body does with the value of one key
read_record(rec) ==
    IF rec.kind = "none" THEN "no_data"
    ELSE IF rec.kind \in {"not_json", "no_last_heartbeat", "bad_timestamp"} THEN "parse_error"
    ELSE IF rec.kind \in {"not_an_object", "aware_timestamp"} THEN "TypeError"
    ELSE IF rec.age <= MemberTTL THEN "active"
    ELSE "stale"

\* NodeMembership.discover: the records read as active; [] when the scan raises, and []
\* when the loop body raises what its own except clause does not catch
discover_records(records, ok) ==
    IF ~ok THEN <<>>
    ELSE IF \E n \in Node : read_record(records[n]) = "TypeError" THEN <<>>
    ELSE SelectSeq(NodeSeq, LAMBDA n : read_record(records[n]) = "active")

\* NodeMembership.heartbeat of node n
HeartbeatRecord(n, ok) ==
    /\ member_ttl' = heartbeat(member_ttl, n, ok)
    /\ node_record' = IF ok THEN [node_record EXCEPT ![n] = [kind |-> "ok", age |-> 0]]
                      ELSE node_record
    /\ UNCHANGED <<membershipFrame, discovered>>

\* another writer sets nt:node:{n}: any value, any last_heartbeat
ForeignWrite(n, kind, age) ==
    /\ kind = "ok" \/ age = 0
    /\ member_ttl' = [member_ttl EXCEPT ![n] = MemberTTL]
    /\ node_record' = [node_record EXCEPT ![n] = [kind |-> kind, age |-> age]]
    /\ UNCHANGED <<membershipFrame, discovered>>

\* one tick passes: the keys run down and go, the heartbeats grow older
MemberTick ==
    /\ member_ttl' = [n \in Node |-> IF member_ttl[n] > 0 THEN member_ttl[n] - 1 ELSE 0]
    /\ node_record' = [n \in Node |->
                          IF member_ttl[n] <= 1 THEN NoRecord
                          ELSE IF node_record[n].kind = "ok" /\ node_record[n].age <= MemberTTL
                          THEN [node_record[n] EXCEPT !.age = @ + 1]
                          ELSE node_record[n]]
    /\ UNCHANGED <<membershipFrame, discovered>>

Discover(ok) ==
    /\ discovered' = [nodes |-> discover_records(node_record, ok), called |-> TRUE, scan_ok |-> ok]
    /\ UNCHANGED <<membershipFrame, member_ttl, node_record>>

MembershipNext ==
    \/ \E n \in Node, ok \in BOOLEAN : HeartbeatRecord(n, ok)
    \/ \E n \in Node, kind \in RecordKinds, age \in 0..(MemberTTL + 1) : ForeignWrite(n, kind, age)
    \/ MemberTick
    \/ \E ok \in BOOLEAN : Discover(ok)

MembershipSpec == MembershipInit /\ [][MembershipNext]_vars

\* the record of n exists, parses, and its last_heartbeat is at most the TTL old
live_record(n) == node_record[n].kind = "ok" /\ node_record[n].age <= MemberTTL

\* C33: a discover() call whose scan succeeds returns exactly the nodes whose record
\* exists, parses and has a last_heartbeat at most the TTL old: no node whose last
\* heartbeat is older than the TTL, and every live node whatever the other records are.
C33_DiscoverExact ==
    [][Discover(TRUE) => discovered'.nodes = SelectSeq(NodeSeq, LAMBDA n : live_record(n))]_vars

(***************************************************************************)
(* calculate_slow_metrics for one symbol whose state has enough data for   *)
(* every calculator (10 trades of 30 minutes, 10 quantities, 5 trades of   *)
(* 30 s, best bid and ask, depth metrics).  Which calculators raise is an  *)
(* input of the call.                                                      *)
(***************************************************************************)
\* the calculators in the order of their calls, lines 59-130
CalcOrder == <<"calculate_volume_profile", "calculate_mid_price", "detect_liquidity_walls",
               "detect_liquidity_vacuums", "detect_spoofing", "detect_iceberg",
               "calculate_depth_metrics", "calculate_flow_acceleration",
               "detect_flash_crash_risk">>

Calculators == {CalcOrder[i] : i \in DOMAIN CalcOrder}

\* the keys of the dict returned and the calculator calls their value is assigned from
MetricKeys == {"volume_profile", "liquidity_walls", "liquidity_vacuums", "anomalies"}

calculators_of(key) ==
    CASE key = "volume_profile" -> {"calculate_volume_profile"}
      [] key = "liquidity_walls" -> {"detect_liquidity_walls"}
      [] key = "liquidity_vacuums" -> {"detect_liquidity_vacuums"}
      [] OTHER -> {"detect_spoofing", "detect_iceberg", "calculate_depth_metrics",
                   "calculate_flow_acceleration", "detect_flash_crash_risk"}

\* what this study never changes
slowMetricsFrame == <<coordVars, hrwVars, stepVars, stateVars, pubVars, enrichVars, cycleVars,
                      healthVars, strategyVars, configVars, profileVars, orderBookVars,
                      lease_call, membershipVars, loopVars>>

SlowMetricsInit ==
    /\ CoordStart({}, {})
    /\ HrwIdle /\ StepIdle /\ StateIdle /\ PubIdle /\ EnrichIdle /\ CycleIdle
    /\ HealthIdle /\ StrategyIdle /\ ConfigIdle /\ ProfileIdle /\ OrderBookIdle
    /\ lease_call = NoLeaseCall
    /\ node_record = [n \in Node |-> NoRecord]
    /\ discovered = NotDiscovered
    /\ loop_log = [l \in Loop |-> "-"]
    /\ loop_ended = {}
    /\ calc_raises \in SUBSET Calculators
    /\ slow_result = NoSlowResult

\* the position in CalcOrder of the first call that raises (past the end: none raises)
first_raise(raises) ==
    IF \E i \in DOMAIN CalcOrder : CalcOrder[i] \in raises
    THEN CHOOSE i \in DOMAIN CalcOrder :
             /\ CalcOrder[i] \in raises
             /\ \A j \in 1..(i - 1) : CalcOrder[j] \notin raises
    ELSE Len(CalcOrder) + 1

\* calculate_slow_metrics: the keys that were assigned a calculator's result.  All calls
\* stand in one try block: the first exception ends the block, the keys not yet assigned
\* keep their defaults; metrics["anomalies"] is assigned after the last detector
calculate_slow_metrics(raises) ==
    LET reached(call) == \E i \in DOMAIN CalcOrder : CalcOrder[i] = call /\ i < first_raise(raises)
    IN  {key \in MetricKeys \ {"anomalies"} : \A call \in calculators_of(key) : reached(call)}
          \cup (IF first_raise(raises) > Len(CalcOrder) THEN {"anomalies"} ELSE {})

CalculateSlowMetrics ==
    /\ ~slow_result.called
    /\ slow_result' = [called |-> TRUE, computed |-> calculate_slow_metrics(calc_raises)]
    /\ UNCHANGED <<slowMetricsFrame, calc_raises>>

SlowMetricsNext == CalculateSlowMetrics

SlowMetricsSpec == SlowMetricsInit /\ [][SlowMetricsNext]_vars

\* C36: when one slow-cycle calculator raises, only the metric of that calculator is
\* omitted: every metric none of whose calculators raised (volume profile, walls,
\* vacuums, anomalies) is computed by the call.
C36_OtherMetricsComputed ==
    slow_result.called
    => \A key \in MetricKeys :
           (calculators_of(key) \cap calc_raises = {}) => key \in slow_result.computed

(***************************************************************************)
(* The three background loops of one strategy in coordinated mode (node A, *)
(* one symbol), from on_start to on_stop.  An iteration runs as a whole,   *)
(* with its store calls failing or not; or it raises an exception that     *)
(* reaches the except clause of the loop before its store calls are made.  *)
(***************************************************************************)
\* the exceptions an iteration is studied with: redis.exceptions.ConnectionError from a
\* store call that is not wrapped, KeyError and AttributeError from the code around it
RaisedInLoop == {"ConnectionError", "KeyError", "AttributeError"}

\* an except clause naming redis.exceptions.RedisError
caught_if_redis_error(raised) == raised = "ConnectionError"

\* except Exception, lines 624, 685 and 740: every class derived from Exception is
\* caught; asyncio.CancelledError, raised by cancel(), derives from BaseException
caught_by_loop(raised) == raised # "CancelledError"

\* one iteration of loop l raises: the except clause logs the error and sleeps, and the
\* while loop goes on; an exception that is not caught ends the task
LoopError(n, l, raised) ==
    /\ Ready(n)
    /\ l \in tasks \ loop_ended
    /\ loop_log' = IF caught_by_loop(raised) THEN [loop_log EXCEPT ![l] = raised] ELSE loop_log
    /\ loop_ended' = IF caught_by_loop(raised) THEN loop_ended ELSE loop_ended \cup {l}
    /\ UNCHANGED <<coordVars, hrwVars, stepVars, stateVars, pubVars, enrichVars, cycleVars,
                   healthVars, strategyVars, configVars, profileVars, orderBookVars, lease_call,
                   membershipVars, slowMetricsVars>>

\* an iteration of loop l may start
loop_runs(l) == l \in tasks \ loop_ended

LoopNext ==
    \/ Tick
    \/ \E ok \in BOOLEAN : loop_runs("heartbeat") /\ HeartbeatLoop(Strategist, ok)
    \/ \E ok \in BOOLEAN, failed \in SUBSET configured_symbols :
           loop_runs("rebalance") /\ RebalanceLoop(Strategist, ok, failed)
    \/ \E failRenew, failRelease \in SUBSET configured_symbols :
           loop_runs("lease_renewal") /\ LeaseRenewalLoop(Strategist, failRenew, failRelease)
    \/ \E l \in Loop, raised \in RaisedInLoop : LoopError(Strategist, l, raised)
    \/ \E ok \in BOOLEAN : OnStop(Strategist, ok)

LoopSpec == StrategyInit /\ [][LoopNext]_vars

\* C35: an error in one iteration of the heartbeat, rebalance or renewal loop is caught
\* and logged and the loop goes on: no loop is ended by an exception, and until on_stop
\* cancels them all three tasks are running.
C35_LoopsSurviveErrors ==
    /\ [](loop_ended = {})
    /\ [](~stop.done => tasks = Loop)
    /\ [][\A l \in Loop, raised \in RaisedInLoop :
              LoopError(Strategist, l, raised)
              => (loop_log'[l] = raised /\ loop_runs(l)' /\ UNCHANGED <<tasks, coordVars>>)]_vars

\* C35 case: each of the three loops has logged an error, and the node has gone on to
\* heartbeat, acquire the symbol and hold its lease
C35_Witness ==
    /\ \A l \in Loop : loop_log[l] # "-"
    /\ tasks = Loop
    /\ member_ttl[Strategist] = MemberTTL
    /\ "BTCUSDT" \in owned_symbols[Strategist]
    /\ lease["BTCUSDT"].owner = Strategist

(***************************************************************************)
(* One MarketAnalyticsStrategy in single-instance mode (coordination       *)
(* disabled): node A configured with one symbol, from construction over    *)
(* on_start to on_stop.  The store outlives the process: report:{s} is     *)
(* absent, or holds the report a node of an earlier coordinated run wrote. *)
(***************************************************************************)
\* the report a coordinated run has left in the store
LeftReport == [token |-> MaxToken, node |-> "B"]

\* the state after construction, lines 140-147: every configured symbol is owned, no
\* coordination component exists, nothing is started
SoloInit ==
    /\ configured_symbols = {"BTCUSDT"}
    /\ lease = [s \in Symbol |-> NoLease]
    /\ member_ttl = [n \in Node |-> 0]
    /\ report \in [Symbol -> {NoReport, LeftReport}]
    /\ ctrl_owned = [n \in Node |-> {}]
    /\ symbol_tokens = [n \in Node |-> [s \in Symbol |-> NoToken]]
    /\ acq_age = [n \in Node |-> [s \in Symbol |-> 0]]
    /\ up = [n \in Node |-> n = Strategist]
    /\ owned_symbols = [n \in Node |-> IF n = Strategist THEN {"BTCUSDT"} ELSE {}]
    /\ writer_tokens = [n \in Node |-> [s \in Symbol |-> NoToken]]
    /\ subscribed = [n \in Node |-> {}]
    /\ lease_conflicts = [n \in Node |-> 0]
    /\ pc = [n \in Node |-> Idle]
    /\ granted = [n \in Node |-> [s \in Symbol |-> 0]]
    /\ issued = [s \in Symbol |-> NoToken]
    /\ last_acquired = [n \in Node |-> [s \in Symbol |-> NoToken]]
    /\ expired = [n \in Node |-> {}]
    /\ AuxIdle

\* on_start, lines 168-190: every owned symbol gets a state and, when its instrument is
\* in the cache, its subscriptions; then the two timers are set
OnStart(n, found) ==
    /\ timers = {}
    /\ ~stop.done
    /\ symbol_states' = [s \in Symbol |->
                            IF s \in owned_symbols[n] THEN initialize_symbol(symbol_states[s])
                            ELSE symbol_states[s]]
    /\ subscribed' = [subscribed EXCEPT ![n] = @ \cup (owned_symbols[n] \cap found)]
    /\ timers' = {"fast_cycle", "slow_cycle"}
    /\ QuietRun(n)
    /\ UNCHANGED <<strategyFrame, storeVars, ctrl_owned, symbol_tokens, owned_symbols,
                   writer_tokens, tasks, stop>>

\* on_fast_cycle, line 245: the token of the symbol's lease in coordinated mode (the
\* default when there is none), the default token otherwise
cycle_writer_token(enable_coordination, n, s) ==
    IF enable_coordination
    THEN IF writer_tokens[n][s] # NoToken THEN writer_tokens[n][s] ELSE default_writer_token
    ELSE default_writer_token

\* one iteration of on_fast_cycle's loop with coordination disabled: no fencing check
solo_cycle_symbol(n, s, publish_ok) ==
    IF fast_report(symbol_states[s], n, cycle_writer_token(FALSE, n, s)) = NoReport
    THEN "report_skipped_insufficient_data"
    ELSE IF publish_ok THEN "report_published"
    ELSE "report_publish_failed"

\* on_fast_cycle with coordination disabled
SoloFastCycle(n, publish_failed) ==
    /\ "fast_cycle" \in timers
    /\ LET owned_states == {s \in owned_symbols[n] : symbol_states[s].present}
           log == [s \in Symbol |->
                      IF s \in owned_states THEN solo_cycle_symbol(n, s, s \notin publish_failed)
                      ELSE "-"]
           published == {s \in Symbol : log[s] = "report_published"}
       IN  /\ report' = [s \in Symbol |->
                            IF s \in published
                            THEN fast_report(symbol_states[s], n, cycle_writer_token(FALSE, n, s))
                            ELSE report[s]]
           /\ fast_log' = log
           /\ lease_conflicts' = [lease_conflicts EXCEPT ![n] = 0]
           /\ report_publish_rate' = [s \in Symbol |-> IF s \in published THEN 1 ELSE 0]
           /\ written' = published
           /\ written_after_stop' = IF stop.done THEN written_after_stop \cup published ELSE {}
    /\ UNCHANGED <<strategyFrame, lease, ctrl_owned, symbol_tokens, stratVars, symbol_states,
                   tasks, timers, stop, faults>>

\* on_stop with coordination disabled: no task to cancel and no lease to release; the
\* fast-cycle timer is cancelled, the owned symbols unsubscribed, the three maps cleared
SoloStop(n) ==
    /\ timers # {}
    /\ ~stop.done
    /\ timers' = timers \ {"fast_cycle"}
    /\ subscribed' = [subscribed EXCEPT ![n] = @ \ owned_symbols[n]]
    /\ symbol_states' = [s \in Symbol |-> NoState]
    /\ owned_symbols' = [owned_symbols EXCEPT ![n] = {}]
    /\ writer_tokens' = [writer_tokens EXCEPT ![n] = [s \in Symbol |-> NoToken]]
    /\ stop' = [done |-> TRUE, owned |-> owned_symbols[n], reachable |-> TRUE]
    /\ QuietRun(n)
    /\ UNCHANGED <<strategyFrame, storeVars, ctrl_owned, symbol_tokens, tasks>>

SoloNext ==
    \/ \E found \in SUBSET configured_symbols : OnStart(Strategist, found)
    \/ \E s \in configured_symbols, book \in Books : OrderBookDeltas(Strategist, s, book)
    \/ \E s \in configured_symbols, trade \in Trade : TradeTick(Strategist, s, trade)
    \/ \E publish_failed \in SUBSET configured_symbols : SoloFastCycle(Strategist, publish_failed)
    \/ \E failed \in SUBSET configured_symbols : SlowCycle(Strategist, failed)
    \/ SoloStop(Strategist)

SoloSpec == SoloInit /\ [][SoloNext]_vars

\* no lease key and no membership record is ever written, no task is started
no_coordination ==
    /\ lease = [s \in Symbol |-> NoLease]
    /\ member_ttl = [n \in Node |-> 0]
    /\ tasks = {}

\* from on_start until on_stop the owned symbols are the configured symbols
owns_configured ==
    (timers # {} /\ ~stop.done) => owned_symbols[Strategist] = configured_symbols

\* C40: in single-instance mode the node performs no membership and no lease
\* operation, owned_symbols equals the configured symbol set in every state from
\* on_start until on_stop, and every report the node publishes carries writer token 1.
C40_SingleInstance ==
    /\ no_coordination
    /\ owns_configured
    /\ \A s \in written : report[s].token = default_writer_token
====
